---- MODULE Spec2Model ----
(***************************************************************************)
(* A model of the gbemu Game Boy emulator core: the scheduler loop of      *)
(* main(), the interrupt dispatch of cpu.h, the I/O dispatcher and timer   *)
(* of io.cpp, the memory bus of memory.cpp, the MBC1 cartridge and the     *)
(* LCD controller of video.cpp.                                            *)
(***************************************************************************)
EXTENDS Integers, Naturals, Sequences, FiniteSets, TLC

VARIABLES regs, memory, cart, io, video, audio, pcLoop, instruction, numClocks, iter

vars == <<regs, memory, cart, io, video, audio, pcLoop, instruction, numClocks, iter>>

(***************************************************************************)
(* Bounds of the exploration.                                              *)
(***************************************************************************)
\* number of iterations of the scheduler loop before the exploration stops
MaxIterations == 4

(***************************************************************************)
(* Fixed-width arithmetic.                                                 *)
(***************************************************************************)
Pow2(n) == 2 ^ n

Bit(v, n) == (v \div Pow2(n)) % 2

U8(v) == v % 256

U16(v) == v % 65536

RECURSIVE And8(_, _)
And8(a, b) ==
    IF a = 0 \/ b = 0 THEN 0
    ELSE (a % 2) * (b % 2) + 2 * And8(a \div 2, b \div 2)

Or8(a, b) == a + b - And8(a, b)

\* v & ~(1 << n) on a byte
ClearBit(v, n) == v - Bit(v, n) * Pow2(n)

\* v | (1 << n) on a byte
SetBit(v, n) == v + (1 - Bit(v, n)) * Pow2(n)

IsInRange(address, start, end) == address >= start /\ address <= end

\* a sparse array: the cells written so far, every other cell holding dflt
Cell(f, k, dflt) == IF k \in DOMAIN f THEN f[k] ELSE dflt

Store(f, k, v) == [x \in DOMAIN f \cup {k} |-> IF x = k THEN v ELSE f[x]]

Empty == [x \in {} |-> 0]

(***************************************************************************)
(* types.h: the memory map, the interrupt bits and the I/O registers.      *)
(***************************************************************************)
Cartridge0Start == 0
Cartridge0End == 32767
VRAMStart == 32768
VRAMEnd == 40959
Cartridge1Start == 40960
Cartridge1End == 49151
WRAM0Start == 49152
WRAM1End == 57343
MirrorStart == 57344
MirrorEnd == 65023
OAMStart == 65024
OAMEnd == 65183
IOStart == 65280
IOEnd == 65407
HRAMStart == 65408
HRAMEnd == 65534

INT_VBlank == 1
INT_LCDStat == 2
INT_Timer == 4

P1 == 65280
DIV == 65284
TIMA == 65285
TMA == 65286
TAC == 65287
IFReg == 65295
NR10 == 65296
NR52 == 65318
AUD3WAVERAMEnd == 65343
LCDC == 65344
STAT == 65345
SCX == 65347
LY == 65348
LYC == 65349
DMA == 65350
WX == 65355
IE == 65535

(***************************************************************************)
(* The cartridge (MBC1).  The ROM image is the program's input: an image   *)
(* of cart.size bytes whose byte at offset i is RomByte(i).  A read past   *)
(* the end of the image is undefined behaviour; it yields cart.oob, a byte *)
(* drawn when the image is loaded.                                         *)
(***************************************************************************)
RomByte(i) == (i + 3 * (i \div 16384)) % 256

cartridgeData(c, i) == IF i < c.size THEN RomByte(i) ELSE c.oob

\* const Address addr: the index of a read in the banked window, narrowed to 16 bits
BankedIndex(c, address) == U16((address - 16384) + c.currentRomBank * 16384)

CartRead_u8(c, address) ==
    IF address >= 0 /\ address <= 16383 THEN cartridgeData(c, address)
    ELSE IF address >= 16384 /\ address <= 32767
    THEN cartridgeData(c, BankedIndex(c, address))
    ELSE IF address >= 40960 /\ address <= 49151
    THEN IF ~c.externalRamEnabled /\ c.enableTracing THEN 255
         ELSE Cell(c.externalRAM, address - 40960, 0)
    ELSE 255

CartWrite_u8(c, address, value) ==
    IF address >= 0 /\ address <= 8191
    THEN [c EXCEPT !.externalRamEnabled = (value % 16) # 0]
    ELSE IF address >= 8192 /\ address <= 16383
    THEN LET bank == value % 32
         IN  [c EXCEPT !.currentRomBank = IF bank % 16 = 0 THEN bank + 1 ELSE bank]
    ELSE IF address >= 16384 /\ address <= 32767 THEN c
    ELSE IF address >= 40960 /\ address <= 49151
    THEN IF ~c.externalRamEnabled THEN c
         ELSE [c EXCEPT !.externalRAM = Store(c.externalRAM, address - 40960, value)]
    ELSE c

(***************************************************************************)
(* The LCD controller's registers (video.cpp).                             *)
(***************************************************************************)
VideoRegister(v, address) == v.data[address - LCDC]

VideoRead(v, address) ==
    IF address = STAT THEN Or8(Or8(VideoRegister(v, address), 128), v.mode)
    ELSE VideoRegister(v, address)

VideoWrite(v, address, value) ==
    [v EXCEPT !.data[address - LCDC] = IF address = STAT THEN And8(value, 120) ELSE value]

(***************************************************************************)
(* The sound unit (audio.cpp).                                             *)
(***************************************************************************)
TimerDivisor == 8192

SampleTimerReload == 4194304 \div 48000

NR11 == 65297
NR12 == 65298
NR13 == 65299
NR14 == 65300
NR21 == 65302
NR22 == 65303
NR23 == 65304
NR24 == 65305
NR50 == 65316
NR51 == 65317

FrequenceToPeriod(freq) == (2048 - freq) * 4

registerOrMask ==
    <<128, 63, 0, 255, 191,  255, 63, 0, 255, 191,  127, 255, 159, 255, 191,
      255, 255, 0, 0, 191,  0, 0, 112>>

AudioRegister(a, address) == Cell(a.data, address - NR10, 0)

AudioIsEnabled(a) == Bit(AudioRegister(a, NR52), 7) = 1

\* an index past the end of registerOrMask reads whatever follows the table:
\* a.oobMask, a byte drawn at construction
AudioRead(a, address) ==
    IF address >= 65319 /\ address <= 65327 THEN 255
    ELSE IF address - NR10 + 1 <= Len(registerOrMask)
         THEN Or8(AudioRegister(a, address), registerOrMask[address - NR10 + 1])
         ELSE Or8(AudioRegister(a, address), a.oobMask)

AudioWriteChannel(a, address, value) ==
    LET n == IF address \in {NR11, NR12, NR13, NR14} THEN 1 ELSE 2
        ch == a.channel[n]
    IN  IF address = NR10
        THEN [a EXCEPT !.channel[1] =
                [@ EXCEPT !.sweepPeriod = (value \div 16) % 8,
                          !.sweepAdd = Bit(value, 3) = 1,
                          !.sweepShift = value % 8]]
        ELSE IF address \in {NR11, NR21}
        THEN [a EXCEPT !.channel[n] =
                [@ EXCEPT !.dutyCycleType = value \div 64,
                          !.lengthCounter = 64 - (value % 64)]]
        ELSE IF address \in {NR12, NR22}
        THEN [a EXCEPT !.channel[n] =
                [@ EXCEPT !.initialVolume = value \div 16,
                          !.currentVolume = value \div 16,
                          !.volumeEnvelopeAdd = IF Bit(value, 3) = 1 THEN 1 ELSE -1,
                          !.volumeEnvelopePeriod = value % 8,
                          !.volumeEnvelopeTimer = value % 8]]
        ELSE IF address \in {NR13, NR23}
        THEN [a EXCEPT !.channel[n] =
                [@ EXCEPT !.frequency = (((ch.frequency \div 256) % 8) * 256) + value]]
        ELSE IF address \in {NR14, NR24}
        THEN LET freq == (ch.frequency % 256) + (value % 8) * 256
                 c1 == [ch EXCEPT !.frequency = freq, !.lengthEnabled = Bit(value, 6) = 1]
                 c2 == [c1 EXCEPT !.enabled = TRUE,
                                  !.lengthCounter = IF c1.lengthCounter = 0 THEN 64 ELSE c1.lengthCounter,
                                  !.periodTimer = FrequenceToPeriod(freq),
                                  !.volumeEnvelopeTimer = c1.volumeEnvelopePeriod,
                                  !.currentVolume = c1.initialVolume,
                                  !.currentDutyCycle = 0]
                 c3 == IF address = NR14
                       THEN [c2 EXCEPT !.sweepEnabled = c2.sweepPeriod > 0 \/ c2.sweepShift > 0,
                                       !.sweepFrequency = freq,
                                       !.sweepTimer = c2.sweepPeriod]
                       ELSE c2
             IN  [a EXCEPT !.channel[n] = IF Bit(value, 7) = 1 THEN c3 ELSE c1]
        ELSE IF address = NR50
        THEN [a EXCEPT !.masterVolumeLeft = (value \div 16) % 8, !.masterVolumeRight = value % 8]
        ELSE IF address = NR51
        THEN [a EXCEPT !.outputLeft = [i \in 0..3 |-> Bit(value, 4 + i) = 1],
                       !.outputRight = [i \in 0..3 |-> Bit(value, i) = 1]]
        ELSE a

AudioWrite(a, address, value) ==
    IF address = NR52
    THEN LET nextEnabled == Bit(value, 7) = 1
             a1 == IF ~a.audioEnabled /\ nextEnabled
                   THEN [a EXCEPT !.cycleCounter = TimerDivisor, !.step = 0]
                   ELSE a
         IN  [a1 EXCEPT !.audioEnabled = nextEnabled,
                        !.data = Store(a.data, address - NR10, And8(value, 128))]
    ELSE IF ~AudioIsEnabled(a) THEN a
    ELSE LET a1 == AudioWriteChannel(a, address, value)
         IN  [a1 EXCEPT !.data = Store(a.data, address - NR10, value)]

(***************************************************************************)
(* The I/O dispatcher (io.cpp).  A bus value b gathers the components a    *)
(* bus access can reach: [memory, cart, io, video, audio].                 *)
(***************************************************************************)
button_A == 1
button_B == 2
button_Left == 4
button_Right == 8
button_Up == 16
button_Down == 32
button_Start == 64
button_Select == 128

IORegister(i, address) == Cell(i.data, address - IOStart, 0)

IOSetRegister(i, address, value) == [i EXCEPT !.data = Store(i.data, address - IOStart, value)]

\* v &= ~(1 << n) when the button is pressed
ReleaseLine(v, pressed, button, n) == IF And8(pressed, button) # 0 THEN ClearBit(v, n) ELSE v

IORead(b, address) ==
    IF address = P1
    THEN LET p1 == IORegister(b.io, P1)
             bp == b.io.buttonPressed
             v0 == 207
             v1 == IF Bit(p1, 5) = 0
                   THEN ReleaseLine(ReleaseLine(ReleaseLine(ReleaseLine(v0,
                            bp, button_Start, 3), bp, button_Select, 2), bp, button_B, 1), bp, button_A, 0)
                   ELSE v0
             v2 == IF Bit(p1, 4) = 0
                   THEN ReleaseLine(ReleaseLine(ReleaseLine(ReleaseLine(v1,
                            bp, button_Down, 3), bp, button_Up, 2), bp, button_Left, 1), bp, button_Right, 0)
                   ELSE v1
         IN  v2
    ELSE IF address = IE THEN b.io.ie
    ELSE IF address >= LCDC /\ address <= WX THEN VideoRead(b.video, address)
    ELSE IF address >= NR10 /\ address <= AUD3WAVERAMEnd THEN AudioRead(b.audio, address)
    ELSE IORegister(b.io, address)

IOWrite(b, address, value) ==
    IF address >= LCDC /\ address <= WX
    THEN [b EXCEPT !.video = VideoWrite(b.video, address, value)]
    ELSE IF address >= NR10 /\ address <= AUD3WAVERAMEnd
    THEN [b EXCEPT !.audio = AudioWrite(b.audio, address, value)]
    ELSE IF address = LY THEN b
    ELSE IF address = IE THEN [b EXCEPT !.io.ie = value]
    ELSE IF address = DIV THEN [b EXCEPT !.io = IOSetRegister(b.io, address, 0)]
    ELSE [b EXCEPT !.io = IOSetRegister(b.io, address, value)]

\* the lowest n in from..7 whose bit is set in pendingInterrupts, -1 for none
RECURSIVE ScanPending(_, _)
ScanPending(pendingInterrupts, n) ==
    IF n >= 8 THEN -1
    ELSE IF Bit(pendingInterrupts, n) = 0 THEN ScanPending(pendingInterrupts, n + 1)
    ELSE n

\* a query that ignores the enable register
GetPendingIRQ_ignores_ie(i) ==
    LET interruptScheduled == IORegister(i, IFReg)
    IN  IF interruptScheduled = 0 THEN -1 ELSE ScanPending(interruptScheduled, 0)

\* std::optional<int>: -1 stands for the empty optional
GetPendingIRQ(i) ==
    LET interruptScheduled == IORegister(i, IFReg)
        pendingInterrupts == And8(interruptScheduled, i.ie)
    IN  IF pendingInterrupts = 0 THEN -1 ELSE ScanPending(pendingInterrupts, 0)

ClearPendingIRQ(i, n) == IOSetRegister(i, IFReg, ClearBit(IORegister(i, IFReg), n))

timaInterval(tac) ==
    CASE tac % 4 = 0 -> 1024
      [] tac % 4 = 1 -> 16
      [] tac % 4 = 2 -> 64
      [] tac % 4 = 3 -> 256

\* a timer that wraps TIMA to 0 on overflow, with no reload and no request
IOTick_no_reload(i, cycles) ==
    LET divCount1 == i.divCount + cycles
        i1 == IF divCount1 >= 256
              THEN [IOSetRegister(i, DIV, U8(IORegister(i, DIV) + 1)) EXCEPT !.divCount = 0]
              ELSE [i EXCEPT !.divCount = divCount1]
        lcdCount1 == i.lcdCount + cycles
        ly1 == IORegister(i1, LY) + 1
        i2 == IF lcdCount1 >= 10
              THEN [IOSetRegister(i1, LY, IF ly1 = 154 THEN 0 ELSE ly1) EXCEPT !.lcdCount = lcdCount1]
              ELSE [i1 EXCEPT !.lcdCount = lcdCount1]
        tac == IORegister(i2, TAC)
        timaCount1 == i2.timaCount + cycles
        tima == IORegister(i2, TIMA)
    IN  IF tac % 2 = 0 THEN i2
        ELSE IF timaCount1 >= timaInterval(tac)
        THEN [IOSetRegister(i2, TIMA, U8(tima + 1)) EXCEPT !.timaCount = 0]
        ELSE [i2 EXCEPT !.timaCount = timaCount1]

IOTick(i, cycles) ==
    LET divCount1 == i.divCount + cycles
        i1 == IF divCount1 >= 256
              THEN [IOSetRegister(i, DIV, U8(IORegister(i, DIV) + 1)) EXCEPT !.divCount = 0]
              ELSE [i EXCEPT !.divCount = divCount1]
        lcdCount1 == i.lcdCount + cycles
        ly1 == IORegister(i1, LY) + 1
        i2 == IF lcdCount1 >= 10
              THEN [IOSetRegister(i1, LY, IF ly1 = 154 THEN 0 ELSE ly1) EXCEPT !.lcdCount = lcdCount1]
              ELSE [i1 EXCEPT !.lcdCount = lcdCount1]
        tac == IORegister(i2, TAC)
        timaCount1 == i2.timaCount + cycles
        tima == IORegister(i2, TIMA)
    IN  IF tac % 2 = 0 THEN i2
        ELSE IF timaCount1 >= timaInterval(tac)
        THEN IF tima = 255
             THEN [IOSetRegister(IOSetRegister(i2, TIMA, IORegister(i2, TMA)),
                                 IFReg, Or8(IORegister(i2, IFReg), INT_Timer))
                   EXCEPT !.timaCount = 0]
             ELSE [IOSetRegister(i2, TIMA, tima + 1) EXCEPT !.timaCount = 0]
        ELSE [i2 EXCEPT !.timaCount = timaCount1]

(***************************************************************************)
(* The memory bus (memory.cpp).  memory.data is never initialised: a cell  *)
(* that was not written yet holds memory.fill, a byte drawn at start-up.   *)
(***************************************************************************)
IsRAM(address) ==
    \/ IsInRange(address, VRAMStart, VRAMEnd)
    \/ IsInRange(address, WRAM0Start, WRAM1End)
    \/ IsInRange(address, MirrorStart, MirrorEnd)
    \/ IsInRange(address, HRAMStart, HRAMEnd)
    \/ IsInRange(address, OAMStart, OAMEnd)

IsIO(address) == IsInRange(address, IOStart, IOEnd) \/ address = IE

IsCartridge(address) ==
    \/ IsInRange(address, Cartridge0Start, Cartridge0End)
    \/ IsInRange(address, Cartridge1Start, Cartridge1End)

\* the index without the translation of the mirror region
RAMIndex_no_mirror(address) == address

\* the index into memory.data that an access to a RAM address uses
RAMIndex(address) ==
    IF IsInRange(address, MirrorStart, MirrorEnd)
    THEN (address - MirrorStart) + WRAM0Start
    ELSE address

MemData(m, address) == Cell(m.data, address, m.fill)

Read_u8(b, address) ==
    IF IsIO(address) THEN IORead(b, address)
    ELSE IF IsCartridge(address) THEN CartRead_u8(b.cart, address)
    ELSE IF IsRAM(address) THEN MemData(b.memory, RAMIndex(address))
    ELSE 255

Read_u16(b, address) ==
    LET lo == Read_u8(b, U16(address + 0))
        hi == Read_u8(b, U16(address + 1))
    IN  hi * 256 + lo

RECURSIVE Write_u8(_, _, _)
RECURSIVE DMACopy(_, _, _, _)
RECURSIVE DMACopy_one_short(_, _, _, _)

\* the loop of the DMA transfer without its last iteration
DMACopy_one_short(b, sourceAddress, lo, hi) ==
    IF hi <= lo \/ lo = 159 THEN b
    ELSE IF hi = lo + 1
    THEN Write_u8(b, 65024 + lo, Read_u8(b, U16(sourceAddress + lo)))
    ELSE CHOOSE copied \in
             {DMACopy_one_short(first, sourceAddress, (lo + hi) \div 2, hi) :
                 first \in {DMACopy_one_short(b, sourceAddress, lo, (lo + hi) \div 2)}} : TRUE

\* the loop of the DMA transfer: its iterations n = lo .. hi - 1 in order, the first
\* half of them done before the second
DMACopy(b, sourceAddress, lo, hi) ==
    IF hi <= lo THEN b
    ELSE IF hi = lo + 1
    THEN Write_u8(b, 65024 + lo, Read_u8(b, U16(sourceAddress + lo)))
    ELSE CHOOSE copied \in
             {DMACopy(first, sourceAddress, (lo + hi) \div 2, hi) :
                 first \in {DMACopy(b, sourceAddress, lo, (lo + hi) \div 2)}} : TRUE

Write_u8(b, address, value) ==
    IF address = DMA
    THEN IOWrite(DMACopy(b, U16(value * 256), 0, 160), address, value)
    ELSE IF IsCartridge(address)
    THEN [b EXCEPT !.cart = CartWrite_u8(b.cart, address, value)]
    ELSE IF IsRAM(address)
    THEN [b EXCEPT !.memory.data = Store(b.memory.data, RAMIndex(address), value)]
    ELSE IF IsIO(address) THEN IOWrite(b, address, value)
    ELSE b

\* the two bytes stored in the other order
Write_u16_high_first(b, address, value) ==
    Write_u8(Write_u8(b, address, value \div 256), U16(address + 1), value % 256)

Write_u16(b, address, value) ==
    Write_u8(Write_u8(b, address, value % 256), U16(address + 1), value \div 256)

(***************************************************************************)
(* The CPU's helpers (cpu.h).  A CPU step works on s = [regs, bus].        *)
(***************************************************************************)
flag_mask == 240

Flag_z == 7
Flag_n == 6
Flag_h == 5
Flag_c == 4

flag_Set(r, flag) == [r EXCEPT !.fl = SetBit(r.fl, flag)]

flag_Clear(r, flag) == [r EXCEPT !.fl = ClearBit(r.fl, flag)]

flag_Assign(r, flag, set) == IF set THEN flag_Set(r, flag) ELSE flag_Clear(r, flag)

flag_IsSet(r, flag) == Bit(r.fl, flag) = 1

Push_u8(s, v) ==
    LET sp == U16(s.regs.sp - 1)
    IN  [regs |-> [s.regs EXCEPT !.sp = sp], bus |-> Write_u8(s.bus, sp, v)]

\* a push that stores the low byte first
Push_u16_low_first(s, v) == Push_u8(Push_u8(s, v % 256), v \div 256)

Push_u16(s, v) == Push_u8(Push_u8(s, v \div 256), v % 256)

\* the state after the pop; the popped byte is Read_u8(s.bus, s.regs.sp)
Pop_u8(s) == [s EXCEPT !.regs.sp = U16(s.regs.sp + 1)]

Pop_u16_value(s) == Read_u8(s.bus, U16(s.regs.sp + 1)) * 256 + Read_u8(s.bus, s.regs.sp)

InvokeIRQ(s, n) == [Push_u16(s, s.regs.pc) EXCEPT !.regs.pc = 64 + 8 * n]

(***************************************************************************)
(* The LCD controller's state machine (video.cpp, Video::Impl::Tick).      *)
(* A tick works on t = [video, io]; the bus b is only read (OAM scan).     *)
(***************************************************************************)
lcd_mode_hBlank == 0
lcd_mode_vBlank == 1
lcd_mode_scanOAM == 2
lcd_mode_readingOAMandVRAM == 3

MaxSprites == 10

\* a request that always raises the VBlank bit as well
RaiseIF_with_vblank(t, mask) ==
    [t EXCEPT !.io = IOSetRegister(t.io, IFReg, Or8(Or8(IORegister(t.io, IFReg), mask), INT_VBlank))]

RaiseIF(t, mask) ==
    [t EXCEPT !.io = IOSetRegister(t.io, IFReg, Or8(IORegister(t.io, IFReg), mask))]

\* the lambda triggerLYCInterrupt: scanLine and stat are the values read when the tick began
triggerLYCInterrupt(t, scanLine, stat) ==
    IF scanLine = VideoRegister(t.video, LYC) /\ Bit(stat, 6) # 0
    THEN RaiseIF(t, INT_LCDStat) ELSE t

triggerOAMInterrupt(t, stat) ==
    IF Bit(stat, 5) # 0 THEN RaiseIF(t, INT_LCDStat) ELSE t

\* a mode change that drops the cycles left over from the mode that ended
setMode_drops_leftover(t, newMode, cyclesToSubtract) ==
    [t EXCEPT !.video.mode = newMode,
              !.video.stateCounter = 0,
              !.video.stateCycles = 0]

setMode(t, newMode, cyclesToSubtract) ==
    [t EXCEPT !.video.mode = newMode,
              !.video.stateCounter = 0,
              !.video.stateCycles = @ - cyclesToSubtract]

\* the addresses spriteReg of the OAM scan loop: 0xfe00, 0xfe04, ... below 0xfea0
SpriteRegs == {65024 + 4 * n : n \in 0..39}

\* the Sprite the loop builds from the entry at spriteReg
SpriteAt(b, spriteReg) ==
    [x |-> Read_u8(b, spriteReg + 1) - 8,
     y |-> Read_u8(b, spriteReg + 0) - 16,
     tileNumber |-> Read_u8(b, spriteReg + 2),
     flags |-> Read_u8(b, spriteReg + 3)]

\* the entry at spriteReg passes the continue tests of the loop; as in the loop, the
\* x byte is read only when the y byte has passed
SpriteOnLine(b, spriteReg, scanLine) ==
    \E spriteY \in {Read_u8(b, spriteReg + 0) - 16} :
        /\ ~(spriteY < 0 \/ spriteY >= 160)
        /\ ~(scanLine < spriteY \/ scanLine >= spriteY + 8)
        /\ \E spriteX \in {Read_u8(b, spriteReg + 1) - 8} :
               ~(spriteX <= -8 \/ spriteX >= 165)

\* the OAM scan loop: the entries on the line in address order, until sprites is full
\* activeSprites < sprites.size(): the entries on the line that are met before the array is full
FirstSprites(onLine) == {r \in onLine : Cardinality({q \in onLine : q < r}) < MaxSprites}

\* sprites[0 .. activeSprites) after the loop: the Sprite of each kept entry, in address order
SpritesInOrder(b, kept) ==
    LET nth(i) == CHOOSE r \in kept : Cardinality({q \in kept : q < r}) = i - 1
    IN  [i \in 1..Cardinality(kept) |-> SpriteAt(b, nth(i))]

\* the OAM scan loop: the entries on the line in address order, until sprites is full
ScanOAM(b, scanLine) ==
    SpritesInOrder(b, FirstSprites({spriteReg \in SpriteRegs : SpriteOnLine(b, spriteReg, scanLine)}))

\* sprites and activeSprites after the scan
SetSprites(t, found) == [t EXCEPT !.video.sprites = found, !.video.activeSprites = Len(found)]

TickScanOAM(t, b, scanLine) ==
    IF t.video.mode = lcd_mode_scanOAM /\ t.video.stateCycles >= 80
    THEN setMode(SetSprites(t, ScanOAM(b, scanLine)), lcd_mode_readingOAMandVRAM, 80)
    ELSE t

\* a variant that starts the next OAM scan straight after the drawing, with no HBlank
TickDrawing_skips_hblank(t, stat) ==
    IF t.video.mode = lcd_mode_readingOAMandVRAM /\ t.video.stateCycles >= 200
    THEN LET t1 == setMode(t, lcd_mode_scanOAM, 200)
         IN  IF Bit(stat, 3) # 0 THEN RaiseIF(t1, INT_LCDStat) ELSE t1
    ELSE t

TickDrawing(t, stat) ==
    IF t.video.mode = lcd_mode_readingOAMandVRAM /\ t.video.stateCycles >= 200
    THEN LET t1 == setMode(t, lcd_mode_hBlank, 200)
         IN  IF Bit(stat, 3) # 0 THEN RaiseIF(t1, INT_LCDStat) ELSE t1
    ELSE t

\* a variant that starts another visible line after line 143
TickHBlank_no_vblank(t, scanLine, stat) ==
    IF t.video.mode = lcd_mode_hBlank /\ t.video.stateCycles >= 176
    THEN LET ly == U8(VideoRegister(t.video, LY) + 1)
             t1 == [t EXCEPT !.video.data[LY - LCDC] = ly]
             t2 == triggerLYCInterrupt(t1, scanLine, stat)
         IN  triggerOAMInterrupt(setMode(t2, lcd_mode_scanOAM, 176), stat)
    ELSE t

TickHBlank(t, scanLine, stat) ==
    IF t.video.mode = lcd_mode_hBlank /\ t.video.stateCycles >= 176
    THEN LET ly == U8(VideoRegister(t.video, LY) + 1)
             t1 == [t EXCEPT !.video.data[LY - LCDC] = ly]
             t2 == triggerLYCInterrupt(t1, scanLine, stat)
         IN  IF ly = 144
             THEN LET t3 == RaiseIF(setMode(t2, lcd_mode_vBlank, 176), INT_VBlank)
                  IN  IF Bit(stat, 4) # 0 THEN RaiseIF(t3, INT_LCDStat) ELSE t3
             ELSE triggerOAMInterrupt(setMode(t2, lcd_mode_scanOAM, 176), stat)
    ELSE t

TickVBlank(t, scanLine, stat) ==
    IF t.video.mode = lcd_mode_vBlank
    THEN LET t1 == IF t.video.stateCycles >= 456
                   THEN triggerLYCInterrupt(
                            [t EXCEPT !.video.stateCycles = @ - 456,
                                      !.video.data[LY - LCDC] = U8(@ + 1)],
                            scanLine, stat)
                   ELSE t
         IN  IF scanLine = 154
             THEN LET t2 == [t1 EXCEPT !.video.data[LY - LCDC] = 0]
                      t3 == triggerLYCInterrupt(t2, scanLine, stat)
                  IN  triggerOAMInterrupt(setMode(t3, lcd_mode_scanOAM, 0), stat)
             ELSE t1
    ELSE t

\* the statements of Tick in order; each stage is computed once from the one before
VideoTick(t0, b, cycles) ==
    LET scanLine == VideoRegister(t0.video, LY)
        stat == VideoRegister(t0.video, STAT)
    IN  CHOOSE t6 \in
            {[t5 EXCEPT !.video.stateCounter = @ + 1] : t5 \in
                {TickVBlank(t4, scanLine, stat) : t4 \in
                    {TickHBlank(t3, scanLine, stat) : t3 \in
                        {TickDrawing(t2, stat) : t2 \in
                            {TickScanOAM(t1, b, scanLine) : t1 \in
                                {[t0 EXCEPT !.video.stateCycles = @ + cycles]}}}}}} : TRUE

(***************************************************************************)
(* The sound unit's clock (audio.cpp, Audio::Impl::Tick).                  *)
(***************************************************************************)
NumChannels == 3

\* the length counter decremented whatever it holds
TickLengthCounterOf_unguarded(ch) ==
    [ch EXCEPT !.lengthCounter = @ - 1,
               !.enabled = IF ch.lengthCounter - 1 = 0 /\ ch.lengthEnabled THEN FALSE ELSE @]

TickLengthCounterOf(ch) ==
    LET lengthCounter == IF ch.lengthCounter > 0 THEN ch.lengthCounter - 1 ELSE ch.lengthCounter
    IN  [ch EXCEPT !.lengthCounter = lengthCounter,
                   !.enabled = IF lengthCounter = 0 /\ ch.lengthEnabled THEN FALSE ELSE @]

TickLengthCounter(a) ==
    [a EXCEPT !.channel = [n \in 1..NumChannels |-> TickLengthCounterOf(a.channel[n])]]

TickVolumeEnvelopeOf(ch) ==
    IF ch.volumeEnvelopePeriod = 0 THEN ch
    ELSE IF ch.volumeEnvelopeTimer - 1 = 0
    THEN LET newVolume == ch.currentVolume + ch.volumeEnvelopeAdd
         IN  [ch EXCEPT !.volumeEnvelopeTimer = ch.volumeEnvelopePeriod,
                        !.currentVolume = IF newVolume >= 0 /\ newVolume <= 15 THEN newVolume ELSE @]
    ELSE [ch EXCEPT !.volumeEnvelopeTimer = @ - 1]

TickVolumeEnvelope(a) ==
    [a EXCEPT !.channel = [n \in 1..NumChannels |-> TickVolumeEnvelopeOf(a.channel[n])]]

\* sweepFrequency >> sweepShift, added to or subtracted from sweepFrequency
CalculateSweep(ch) ==
    LET sweepPortion == ch.sweepFrequency \div Pow2(ch.sweepShift)
    IN  IF ch.sweepAdd THEN ch.sweepFrequency + sweepPortion ELSE ch.sweepFrequency - sweepPortion

\* CalculateSweep(2047): the int 2047 converts to a temporary Channel through
\* aggregate initialisation of its first member, so every field read is zero
CalculateSweepOfTemporary == 0

TickSweep(a) ==
    LET ch0 == a.channel[1]
        ch == IF ch0.sweepTimer > 0 THEN [ch0 EXCEPT !.sweepTimer = @ - 1] ELSE ch0
        newFreq == CalculateSweep(ch)
        ch1 == IF ch.sweepEnabled /\ ch.sweepPeriod # 0 /\ ch.sweepTimer = 0
               THEN LET c1 == [ch EXCEPT !.sweepTimer = ch.sweepPeriod]
                    IN  IF newFreq <= 2047 /\ ch.sweepShift # 0
                        THEN [c1 EXCEPT !.sweepFrequency = newFreq,
                                        !.frequency = newFreq,
                                        !.periodTimer = FrequenceToPeriod(newFreq),
                                        !.enabled = IF CalculateSweepOfTemporary > 2047 THEN FALSE ELSE @]
                        ELSE c1
               ELSE ch
    IN  [a EXCEPT !.channel[1] = ch1]

TickChannelOf(ch) ==
    IF ch.periodTimer - 1 = 0
    THEN [ch EXCEPT !.currentDutyCycle = (@ + 1) % 8,
                    !.periodTimer = FrequenceToPeriod(ch.frequency)]
    ELSE [ch EXCEPT !.periodTimer = @ - 1]

TickChannels(a) ==
    [a EXCEPT !.channel = [n \in 1..NumChannels |-> TickChannelOf(a.channel[n])]]

RECURSIVE TickChannelsTimes(_, _)
TickChannelsTimes(a, n) == IF n <= 0 THEN a ELSE TickChannelsTimes(TickChannels(a), n - 1)

\* a frame sequencer that starts every period from zero
AudioTick_drops_remainder(a0, cycles) ==
    LET a1 == TickChannelsTimes(a0, cycles)
        cycleCounter == a1.cycleCounter + cycles
        a2 == IF cycleCounter >= TimerDivisor
              THEN LET step == a1.step
                       l == IF step \in {0, 2, 4, 6} THEN TickLengthCounter(a1) ELSE a1
                       w == IF step \in {2, 6} THEN TickSweep(l) ELSE l
                       e == IF step = 7 THEN TickVolumeEnvelope(w) ELSE w
                   IN  [e EXCEPT !.cycleCounter = 0,
                                 !.step = (step + 1) % 8]
              ELSE [a1 EXCEPT !.cycleCounter = cycleCounter]
        sampleTimer == a2.sampleTimer - cycles
    IN  [a2 EXCEPT !.sampleTimer = IF sampleTimer <= 0 THEN SampleTimerReload ELSE sampleTimer]

AudioTick(a0, cycles) ==
    LET a1 == TickChannelsTimes(a0, cycles)
        cycleCounter == a1.cycleCounter + cycles
        a2 == IF cycleCounter >= TimerDivisor
              THEN LET step == a1.step
                       l == IF step \in {0, 2, 4, 6} THEN TickLengthCounter(a1) ELSE a1
                       w == IF step \in {2, 6} THEN TickSweep(l) ELSE l
                       e == IF step = 7 THEN TickVolumeEnvelope(w) ELSE w
                   IN  [e EXCEPT !.cycleCounter = cycleCounter - TimerDivisor,
                                 !.step = (step + 1) % 8]
              ELSE [a1 EXCEPT !.cycleCounter = cycleCounter]
        sampleTimer == a2.sampleTimer - cycles
    IN  [a2 EXCEPT !.sampleTimer = IF sampleTimer <= 0 THEN SampleTimerReload ELSE sampleTimer]

(***************************************************************************)
(* The state after construction (main(), and the members' initialisers).   *)
(***************************************************************************)
\* the bytes an uninitialised cell of memory.data may hold
FillBytes == {0, 255}

InitRegs ==
    [a |-> 1, b |-> 0, c |-> 19, d |-> 0, e |-> 216, h |-> 1, l |-> 77, fl |-> 176,
     ime |-> FALSE, halt |-> FALSE, pc |-> 256, sp |-> 65534]

InitCart ==
    [externalRAM |-> Empty, externalRamEnabled |-> FALSE, enableTracing |-> FALSE,
     currentRomBank |-> 1, size |-> 32768, oob |-> 0]

InitIO ==
    [data |-> Empty, ie |-> 0, timaCount |-> 0, divCount |-> 0, lcdCount |-> 0, buttonPressed |-> 0]

InitVideo ==
    [mode |-> lcd_mode_scanOAM, stateCycles |-> 0, stateCounter |-> 0,
     data |-> [n \in 0..11 |-> 0], sprites |-> <<>>, activeSprites |-> 0, needRender |-> FALSE]

InitChannel ==
    [enabled |-> FALSE, lengthEnabled |-> FALSE, lengthCounter |-> 0, initialVolume |-> 0,
     currentVolume |-> 0, dutyCycleType |-> 0, currentDutyCycle |-> 0, frequency |-> 0,
     periodTimer |-> 0, volumeEnvelopeAdd |-> 0, volumeEnvelopePeriod |-> 0,
     volumeEnvelopeTimer |-> 0, sweepEnabled |-> FALSE, sweepTimer |-> 0, sweepFrequency |-> 0,
     sweepPeriod |-> 0, sweepAdd |-> FALSE, sweepShift |-> 0]

InitAudio ==
    [channel |-> [n \in 1..NumChannels |-> InitChannel],
     outputLeft |-> [n \in 0..3 |-> FALSE], outputRight |-> [n \in 0..3 |-> FALSE],
     masterVolumeLeft |-> 0, masterVolumeRight |-> 0, data |-> Empty, audioEnabled |-> FALSE,
     cycleCounter |-> 0, step |-> 0, sampleTimer |-> SampleTimerReload, oobMask |-> 0]

\* what the scheduler has done in the current iteration of its loop; lines and frames
\* count the increments of LY and the frames presented, tima the times the timer
\* stepped TIMA, address, value and width the last store through the bus (-1 and 0 for none)
InitIter ==
    [regs0 |-> InitRegs, fetched |-> 0, io |-> 0, video |-> 0, audio |-> 0, irq |-> -1, count |-> 0,
     lines |-> 0, frames |-> 0, tima |-> 0, address |-> -1, value |-> -1, width |-> 0]

Bus == [memory |-> memory, cart |-> cart, io |-> io, video |-> video, audio |-> audio]

Init ==
    /\ regs = InitRegs
    /\ memory \in {[data |-> Empty, fill |-> f] : f \in FillBytes}
    /\ cart = InitCart
    /\ io = InitIO
    /\ video = InitVideo
    /\ audio = InitAudio
    /\ pcLoop = "fetch"
    /\ instruction = [table |-> "opcode", op |-> 0]
    /\ numClocks = 0
    /\ iter = InitIter

(***************************************************************************)
(* The arithmetic helpers of cpu.h (namespace detail) and the instructions *)
(* modelled from the opcode and opcode_cb tables.  The cartridge image is  *)
(* an input, so every byte fetched at PC is drawn from the sets below.     *)
(***************************************************************************)
Xor8(a, b) == a + b - 2 * And8(a, b)

\* CalculateHalfCarry_u8 with std::plus; a is the uint8_t parameter
\* a half carry that leaves the carry-in out
CalculateHalfCarry_u8_plus_no_carry(a, b, c) == Bit((U8(a) % 16) + (U8(b) % 16), 4) = 1

CalculateHalfCarry_u8_plus(a, b, c) == Bit((U8(a) % 16) + (U8(b) % 16) + (U8(c) % 16), 4) = 1

\* CalculateHalfCarry_u8 with std::minus; the difference may be negative
CalculateHalfCarry_u8_minus(a, b, c) == Bit((U8(a) % 16) - (U8(b) % 16) - (U8(c) % 16), 4) = 1

\* CalculateHalfCarry_u16 with std::plus
CalculateHalfCarry_u16_plus(a, b) == (a % 4096) + (b % 4096) > 4095

\* the helpers below take the registers r and the byte v their reference names, and
\* give the registers and the byte after the call
Add_u8(r, v, imm, carry) ==
    LET halfCarry == CalculateHalfCarry_u8_plus(v, imm, carry)
        res == U8(U16(v + imm + carry))
    IN  [value |-> res,
         regs |-> flag_Assign(flag_Clear(flag_Assign(r, Flag_z, res = 0), Flag_n),
                              Flag_h, halfCarry)]

Add_r8(r, v, imm8, carry) ==
    LET c == IF carry THEN 1 ELSE 0
    IN  Add_u8(flag_Assign(r, Flag_c, v + imm8 + c > 255), v, imm8, c)

Adc_r8(r, v, imm8) == Add_r8(r, v, imm8, flag_IsSet(r, Flag_c))

Sub_u8(r, v, imm8, carry) ==
    LET halfCarry == CalculateHalfCarry_u8_minus(v, imm8, carry)
        res == U8(U16(v - imm8 - carry))
    IN  [value |-> res,
         regs |-> flag_Assign(flag_Set(flag_Assign(r, Flag_z, res = 0), Flag_n),
                              Flag_h, halfCarry)]

Sub_r8(r, v, imm8, carry) ==
    LET c == IF carry THEN 1 ELSE 0
    IN  Sub_u8(flag_Assign(r, Flag_c, v - imm8 - c < 0), v, imm8, c)

Sbc_r8(r, v, imm8) == Sub_r8(r, v, imm8, flag_IsSet(r, Flag_c))

Add_u16(r, v, imm16) ==
    LET r1 == flag_Assign(r, Flag_c, v + imm16 > 65535)
        halfCarry == CalculateHalfCarry_u16_plus(v, imm16)
    IN  [value |-> U16(v + imm16),
         regs |-> flag_Assign(flag_Clear(r1, Flag_n), Flag_h, halfCarry)]

Inc_r8(r, v) == Add_u8(r, v, 1, 0)

Dec_r8(r, v) == Sub_u8(r, v, 1, 0)

FuseRegisters(a, b) == a * 256 + b

Add_HL_r16(r, x, y) ==
    LET w == Add_u16(r, FuseRegisters(r.h, r.l), FuseRegisters(x, y))
    IN  [w.regs EXCEPT !.h = w.value \div 256, !.l = w.value % 256]

\* an adjustment that does not look at the half carry
DAA_ignores_half_carry(r) ==
    LET n_flag == flag_IsSet(r, Flag_n)
        c_flag == flag_IsSet(r, Flag_c)
        add1 == c_flag \/ r.a > 153
        a1 == IF add1 THEN U8(r.a + 96) ELSE r.a
        a2 == IF (a1 % 16) > 9 THEN U8(a1 + 6) ELSE a1
        s1 == IF c_flag THEN U8(r.a - 96) ELSE r.a
        s2 == s1
        a == IF ~n_flag THEN a2 ELSE s2
        r1 == IF ~n_flag /\ add1 THEN flag_Set(r, Flag_c) ELSE r
    IN  flag_Clear(flag_Assign([r1 EXCEPT !.a = a], Flag_z, a = 0), Flag_h)

DAA(r) ==
    LET n_flag == flag_IsSet(r, Flag_n)
        c_flag == flag_IsSet(r, Flag_c)
        h_flag == flag_IsSet(r, Flag_h)
        add1 == c_flag \/ r.a > 153
        a1 == IF add1 THEN U8(r.a + 96) ELSE r.a
        a2 == IF h_flag \/ (a1 % 16) > 9 THEN U8(a1 + 6) ELSE a1
        s1 == IF c_flag THEN U8(r.a - 96) ELSE r.a
        s2 == IF h_flag THEN U8(s1 - 6) ELSE s1
        a == IF ~n_flag THEN a2 ELSE s2
        r1 == IF ~n_flag /\ add1 THEN flag_Set(r, Flag_c) ELSE r
    IN  flag_Clear(flag_Assign([r1 EXCEPT !.a = a], Flag_z, a = 0), Flag_h)

And_A_r8(r, imm8) ==
    LET a == And8(r.a, imm8)
    IN  flag_Clear(flag_Set(flag_Clear(flag_Assign([r EXCEPT !.a = a], Flag_z, a = 0),
                                       Flag_n), Flag_h), Flag_c)

Xor_A_r8(r, imm8) ==
    LET a == Xor8(r.a, imm8)
    IN  flag_Clear(flag_Clear(flag_Clear(flag_Assign([r EXCEPT !.a = a], Flag_z, a = 0),
                                         Flag_n), Flag_h), Flag_c)

Or_A_r8(r, imm8) ==
    LET a == Or8(r.a, imm8)
    IN  flag_Clear(flag_Clear(flag_Clear(flag_Assign([r EXCEPT !.a = a], Flag_z, a = 0),
                                         Flag_n), Flag_h), Flag_c)

\* the subtraction is made on a copy of A
Cp_A_r8(r, imm8) == Sub_r8(r, r.a, imm8, FALSE).regs

\* the flag writes the rotates and shifts end with
ShiftFlags(r, res, carry) ==
    [value |-> res,
     regs |-> flag_Assign(flag_Clear(flag_Clear(flag_Assign(r, Flag_z, res = 0), Flag_n),
                                     Flag_h), Flag_c, carry)]

Rlc(r, v) ==
    LET carry == Bit(v, 7) # 0
        res == Or8((v * 2) % 256, IF carry THEN 1 ELSE 0)
    IN  ShiftFlags(r, res, carry)

Rrc(r, v) ==
    LET carry == Bit(v, 0) # 0
        res == Or8(v \div 2, IF carry THEN 128 ELSE 0)
    IN  ShiftFlags(r, res, carry)

Rl(r, v) ==
    LET carry == Bit(v, 7) # 0
        res == Or8((v * 2) % 256, IF flag_IsSet(r, Flag_c) THEN 1 ELSE 0)
    IN  ShiftFlags(r, res, carry)

Rr(r, v) ==
    LET carry == Bit(v, 0) # 0
        res == Or8(v \div 2, IF flag_IsSet(r, Flag_c) THEN 128 ELSE 0)
    IN  ShiftFlags(r, res, carry)

Sla(r, v) == ShiftFlags(r, (v * 2) % 256, Bit(v, 7) # 0)

Sra(r, v) == ShiftFlags(r, Or8(And8(v, 128), v \div 2), Bit(v, 0) # 0)

Swap(r, v) ==
    LET res == (v \div 16) + (v % 16) * 16
    IN  [value |-> res,
         regs |-> flag_Clear(flag_Clear(flag_Clear(flag_Assign(r, Flag_z, res = 0),
                                                   Flag_n), Flag_h), Flag_c)]

Srl(r, v) == ShiftFlags(r, v \div 2, Bit(v, 0) # 0)

\* detail::Bit<N>
Bit_N(r, v, N) == flag_Set(flag_Clear(flag_Assign(r, Flag_z, Bit(v, N) = 0), Flag_n), Flag_h)

\* static_cast<int8_t>(v)
Int8(v) == IF v >= 128 THEN v - 256 ELSE v

OP_nop == 0
OP_rlca == 7
OP_rrca == 15
OP_rla == 23
OP_rra == 31
OP_daa == 39
OP_add_hl_hl == 41
OP_cpl == 47
OP_ld_sp_imm == 49
OP_scf == 55
OP_inc_a == 60
OP_dec_a == 61
OP_ld_a_imm == 62
OP_ccf == 63
OP_halt == 118
OP_push_bc == 197
OP_add_a_imm == 198
OP_adc_a_imm == 206
OP_sub_imm == 214
OP_reti == 217
OP_sbc_a_imm == 222
OP_ldh_imm_a == 224
OP_and_imm == 230
OP_add_sp_imm == 232
OP_xor_imm == 238
OP_pop_af == 241
OP_di == 243
OP_or_imm == 246
OP_ld_hl_sp_imm == 248
OP_ei == 251
OP_cp_imm == 254
CB_rlc_a == 7
CB_rrc_a == 15
CB_rl_a == 23
CB_rr_a == 31
CB_sla_a == 39
CB_sra_a == 47
CB_swap_a == 55
CB_srl_a == 63
CB_bit_0_a == 71
CB_bit_7_a == 127

\* a halted CPU that ran HALT again on every iteration
NOP_rerun_halt == [table |-> "opcode", op |-> OP_halt]

\* gb::cpu::opcode[0x00], the instruction a halted CPU executes
NOP == [table |-> "opcode", op |-> OP_nop]

\* the instructions the scheduler's program is made of
Opcodes ==
    {[table |-> "opcode", op |-> o] :
        o \in {OP_nop, OP_ld_sp_imm, OP_ld_a_imm, OP_halt, OP_reti, OP_ldh_imm_a, OP_di, OP_ei}}
    \cup {[table |-> "opcode_cb", op |-> CB_swap_a]}

\* operand bytes <<lo, hi>> found after the opcode
Operands(ins) ==
    IF ins.table = "opcode" /\ ins.op = OP_ld_a_imm THEN {<<6, 0>>, <<255, 0>>}
    ELSE IF ins.table = "opcode" /\ ins.op = OP_ldh_imm_a
    THEN {<<15, 0>>, <<255, 0>>}
    ELSE IF ins.table = "opcode" /\ ins.op = OP_ld_sp_imm THEN {<<1, 0>>}
    ELSE {<<0, 0>>}

HandleRelativeReturn(s, take) ==
    IF take
    THEN [regs |-> [Pop_u8(Pop_u8(s)).regs EXCEPT !.pc = Pop_u16_value(s)], bus |-> s.bus, cycles |-> 20]
    ELSE [regs |-> s.regs, bus |-> s.bus, cycles |-> 8]

AdvancePC(r, n) == [r EXCEPT !.pc = U16(@ + n)]

\* the result of an instruction that leaves memory alone
Done(s, r, cycles) == [regs |-> r, bus |-> s.bus, cycles |-> cycles]

\* an instruction that calls a helper on register A
OnA(s, w, cycles) == Done(s, [w.regs EXCEPT !.a = w.value], cycles)

\* the flag writes of add sp,e8 and ld hl,sp+e8
SPOffsetFlags(r, v) ==
    flag_Clear(flag_Clear(flag_Assign(flag_Assign(r, Flag_h,
                                                  CalculateHalfCarry_u8_plus(r.sp, v, 0)),
                                      Flag_c, (r.sp % 256) + v > 255),
                          Flag_z), Flag_n)

add_sp_imm(s, v) ==
    LET r == SPOffsetFlags(AdvancePC(s.regs, 1), v)
    IN  Done(s, [r EXCEPT !.sp = U16(r.sp + Int8(v))], 16)

ld_hl_sp_imm(s, v) ==
    LET r == SPOffsetFlags(AdvancePC(s.regs, 1), v)
        hl == U16(r.sp + Int8(v))
    IN  Done(s, [r EXCEPT !.h = hl \div 256, !.l = hl % 256], 12)

\* the result of a step that ends in state t
Stepped(t, cycles) == [regs |-> t.regs, bus |-> t.bus, cycles |-> cycles]

push_bc(s) == Stepped(Push_u16(s, FuseRegisters(s.regs.b, s.regs.c)), 16)

\* a pop af that keeps all eight bits of the popped byte
pop_af_unmasked(s) ==
    LET fl == Read_u8(s.bus, s.regs.sp)
        s1 == Pop_u8(s)
        a == Read_u8(s1.bus, s1.regs.sp)
        s2 == Pop_u8(s1)
    IN  Done(s, [s2.regs EXCEPT !.fl = fl, !.a = a], 12)

pop_af(s) ==
    LET fl == And8(Read_u8(s.bus, s.regs.sp), flag_mask)
        s1 == Pop_u8(s)
        a == Read_u8(s1.bus, s1.regs.sp)
        s2 == Pop_u8(s1)
    IN  Done(s, [s2.regs EXCEPT !.fl = fl, !.a = a], 12)

\* opcode_cb[ins.op].func
FuncCB(op, s) ==
    LET r == s.regs
    IN  CASE op = CB_rlc_a -> OnA(s, Rlc(r, r.a), 8)
          [] op = CB_rrc_a -> OnA(s, Rrc(r, r.a), 8)
          [] op = CB_rl_a -> OnA(s, Rl(r, r.a), 8)
          [] op = CB_rr_a -> OnA(s, Rr(r, r.a), 8)
          [] op = CB_sla_a -> OnA(s, Sla(r, r.a), 8)
          [] op = CB_sra_a -> OnA(s, Sra(r, r.a), 8)
          [] op = CB_swap_a -> OnA(s, Swap(r, r.a), 8)
          [] op = CB_srl_a -> OnA(s, Srl(r, r.a), 8)
          [] op = CB_bit_0_a -> Done(s, Bit_N(r, r.a, 0), 8)
          [] op = CB_bit_7_a -> Done(s, Bit_N(r, r.a, 7), 8)

\* instruction->func(regs, memory): the state after it and the cycles it returns
Func(ins, s, lo, hi) ==
    LET r == s.regs
        rv == AdvancePC(r, 1)
        clearZ(w) == [value |-> w.value, regs |-> flag_Clear(w.regs, Flag_z)]
    IN  IF ins.table = "opcode_cb" THEN FuncCB(ins.op, s)
        ELSE CASE ins.op = OP_nop -> Done(s, r, 4)
               [] ins.op = OP_halt -> Done(s, [r EXCEPT !.halt = TRUE], 8)
               [] ins.op = OP_ei -> Done(s, [r EXCEPT !.ime = TRUE], 4)
               [] ins.op = OP_di -> Done(s, [r EXCEPT !.ime = FALSE], 4)
               [] ins.op = OP_reti ->
                    LET t == HandleRelativeReturn(s, TRUE)
                    IN  [regs |-> [t.regs EXCEPT !.ime = TRUE], bus |-> t.bus, cycles |-> 16]
               [] ins.op = OP_ld_a_imm -> Done(s, [rv EXCEPT !.a = lo], 8)
               [] ins.op = OP_ldh_imm_a ->
                    [regs |-> rv, bus |-> Write_u8(s.bus, 65280 + lo, r.a), cycles |-> 12]
               [] ins.op = OP_ld_sp_imm ->
                    Done(s, [AdvancePC(r, 2) EXCEPT !.sp = hi * 256 + lo], 12)
               [] ins.op = OP_rlca -> OnA(s, clearZ(Rlc(r, r.a)), 4)
               [] ins.op = OP_rrca -> OnA(s, clearZ(Rrc(r, r.a)), 4)
               [] ins.op = OP_rla -> OnA(s, clearZ(Rl(r, r.a)), 4)
               [] ins.op = OP_rra -> OnA(s, clearZ(Rr(r, r.a)), 4)
               [] ins.op = OP_daa -> Done(s, DAA(r), 4)
               [] ins.op = OP_add_hl_hl -> Done(s, Add_HL_r16(r, r.h, r.l), 8)
               [] ins.op = OP_cpl ->
                    Done(s, flag_Set(flag_Set([r EXCEPT !.a = 255 - r.a], Flag_n), Flag_h), 4)
               [] ins.op = OP_scf ->
                    Done(s, flag_Clear(flag_Clear(flag_Set(r, Flag_c), Flag_n), Flag_h), 4)
               [] ins.op = OP_ccf ->
                    Done(s, flag_Clear(flag_Clear(flag_Assign(r, Flag_c, ~flag_IsSet(r, Flag_c)),
                                                  Flag_n), Flag_h), 4)
               [] ins.op = OP_inc_a -> OnA(s, Inc_r8(r, r.a), 4)
               [] ins.op = OP_dec_a -> OnA(s, Dec_r8(r, r.a), 4)
               [] ins.op = OP_add_a_imm -> OnA(s, Add_r8(rv, r.a, lo, FALSE), 8)
               [] ins.op = OP_adc_a_imm -> OnA(s, Adc_r8(rv, r.a, lo), 8)
               [] ins.op = OP_sub_imm -> OnA(s, Sub_r8(rv, r.a, lo, FALSE), 8)
               [] ins.op = OP_sbc_a_imm -> OnA(s, Sbc_r8(rv, r.a, lo), 8)
               [] ins.op = OP_and_imm -> Done(s, And_A_r8(rv, lo), 8)
               [] ins.op = OP_xor_imm -> Done(s, Xor_A_r8(rv, lo), 8)
               [] ins.op = OP_or_imm -> Done(s, Or_A_r8(rv, lo), 8)
               [] ins.op = OP_cp_imm -> Done(s, Cp_A_r8(rv, lo), 8)
               [] ins.op = OP_add_sp_imm -> add_sp_imm(s, lo)
               [] ins.op = OP_ld_hl_sp_imm -> ld_hl_sp_imm(s, lo)
               [] ins.op = OP_push_bc -> push_bc(s)
               [] ins.op = OP_pop_af -> pop_af(s)

(***************************************************************************)
(* The scheduler: the loop of main(), one action per statement group.      *)
(***************************************************************************)
SetBus(b) ==
    /\ memory' = b.memory
    /\ cart' = b.cart
    /\ io' = b.io
    /\ video' = b.video
    /\ audio' = b.audio

\* lines 326-346: the halted CPU keeps the NOP; otherwise the opcode is fetched at PC
Fetch ==
    /\ pcLoop = "fetch"
    /\ iter.count < MaxIterations
    /\ IF regs.halt
       THEN /\ instruction' = NOP
            /\ regs' = regs
            /\ iter' = [iter EXCEPT !.regs0 = regs, !.fetched = 0, !.io = 0, !.video = 0,
                                    !.audio = 0, !.irq = -1, !.count = @ + 1]
       ELSE /\ \E ins \in Opcodes :
                 LET n == IF ins.table = "opcode_cb" THEN 2 ELSE 1
                 IN  /\ instruction' = ins
                     /\ regs' = AdvancePC(regs, n)
                     /\ iter' = [iter EXCEPT !.regs0 = regs, !.fetched = n, !.io = 0, !.video = 0,
                                             !.audio = 0, !.irq = -1, !.count = @ + 1]
    /\ pcLoop' = "exec"
    /\ UNCHANGED <<memory, cart, io, video, audio, numClocks>>

\* line 348
Execute ==
    /\ pcLoop = "exec"
    /\ \E operand \in Operands(instruction) :
         \E res \in {Func(instruction, [regs |-> regs, bus |-> Bus], operand[1], operand[2])} :
             /\ regs' = res.regs
             /\ SetBus(res.bus)
             /\ numClocks' = res.cycles
    /\ pcLoop' = "io"
    /\ UNCHANGED <<instruction, iter>>

\* line 349
TickIO ==
    /\ pcLoop = "io"
    /\ io' = IOTick(io, numClocks)
    /\ iter' = [iter EXCEPT !.io = @ + numClocks]
    /\ pcLoop' = "video"
    /\ UNCHANGED <<regs, memory, cart, video, audio, instruction, numClocks>>

\* Video::GetRenderFlagAndReset is raised when the frame wraps
RaiseRenderFlag(old, new) ==
    IF old.mode = lcd_mode_vBlank /\ new.mode = lcd_mode_scanOAM
    THEN [new EXCEPT !.needRender = TRUE] ELSE new

\* line 350
TickVideo ==
    /\ pcLoop = "video"
    /\ \E t \in {VideoTick([video |-> video, io |-> io], Bus, numClocks)} :
           /\ video' = RaiseRenderFlag(video, t.video)
           /\ io' = t.io
    /\ iter' = [iter EXCEPT !.video = @ + numClocks]
    /\ pcLoop' = "audio"
    /\ UNCHANGED <<regs, memory, cart, audio, instruction, numClocks>>

\* a loop that forgets the sound unit
TickAudio_skipped ==
    /\ pcLoop = "audio"
    /\ pcLoop' = "poll"
    /\ UNCHANGED <<regs, memory, cart, io, video, audio, instruction, numClocks, iter>>

\* line 351
TickAudio ==
    /\ pcLoop = "audio"
    /\ audio' = AudioTick(audio, numClocks)
    /\ iter' = [iter EXCEPT !.audio = @ + numClocks]
    /\ pcLoop' = "poll"
    /\ UNCHANGED <<regs, memory, cart, io, video, instruction, numClocks>>

\* the keys HandleEvents may find pressed
ButtonStates == {0, button_A, button_Start + button_Down}

\* the state a poll leaves, with the interrupt it dispatched
Polled(s, irq) == [regs |-> s.regs, bus |-> s.bus, irq |-> irq]

\* a poll that clears HALT only when it dispatches
PollIRQ_halt_needs_ime(s) ==
    LET pendingIrq == GetPendingIRQ(s.bus.io)
    IN  IF pendingIrq # -1 /\ s.regs.ime
        THEN Polled(InvokeIRQ([s EXCEPT !.regs.halt = FALSE,
                                        !.bus.io = ClearPendingIRQ(s.bus.io, pendingIrq)], pendingIrq),
                    pendingIrq)
        ELSE Polled(s, -1)

\* lines 365-371 on s = [regs, bus]; irq is the interrupt dispatched, -1 for none
PollIRQ(s) ==
    LET pendingIrq == GetPendingIRQ(s.bus.io)
        s1 == [s EXCEPT !.regs.halt = FALSE]
    IN  IF pendingIrq # -1
        THEN IF s1.regs.ime
             THEN Polled(InvokeIRQ([s1 EXCEPT !.bus.io = ClearPendingIRQ(s1.bus.io, pendingIrq)],
                                   pendingIrq),
                         pendingIrq)
             ELSE Polled(s1, -1)
        ELSE Polled(s, -1)

\* lines 353-371: present a finished frame and read the keys, then poll the interrupts
Poll ==
    /\ pcLoop = "poll"
    /\ \E pressed \in ButtonStates, quit \in BOOLEAN :
         LET render == video.needRender
             b == IF render
                  THEN [Bus EXCEPT !.video.needRender = FALSE, !.io.buttonPressed = pressed]
                  ELSE Bus
         IN  /\ (~render) => (pressed = 0 /\ ~quit)
             /\ IF render /\ quit
                THEN /\ pcLoop' = "done"
                     /\ SetBus(b)
                     /\ UNCHANGED <<regs, iter>>
                ELSE \E s \in {PollIRQ([regs |-> regs, bus |-> b])} :
                         /\ pcLoop' = "fetch"
                         /\ regs' = s.regs
                         /\ SetBus(s.bus)
                         /\ iter' = [iter EXCEPT !.irq = s.irq]
    /\ UNCHANGED <<instruction, numClocks>>

Next == Fetch \/ Execute \/ TickIO \/ TickVideo \/ TickAudio \/ Poll

Spec == Init /\ [][Next]_vars

(***************************************************************************)
(* Properties of the scheduler and of the interrupt dispatch.              *)
(***************************************************************************)
IFValue == IORegister(io, IFReg)

PendingMask == And8(IFValue, io.ie)

\* the poll that just ended dispatched an interrupt
Dispatched == pcLoop = "fetch" /\ iter.irq # -1

\* a step of the interrupt poll that goes back to the top of the loop
PollStep == pcLoop = "poll" /\ pcLoop' = "fetch"

InWRAMorHRAM(address) ==
    IsInRange(address, WRAM0Start, WRAM1End) \/ IsInRange(address, HRAMStart, HRAMEnd)

LowestBit(v) == CHOOSE n \in 0..7 : Bit(v, n) = 1 /\ \A m \in 0..(n - 1) : Bit(v, m) = 0

\* C1: right after the poll has dispatched a pending interrupt, IME is false.
C1_ImeClearAfterDispatch == Dispatched => ~regs.ime

\* C2: a dispatch of interrupt n in 0..4 with the stack in WRAM/HRAM lowers SP by 2,
\* stores the old PC (high byte at old SP-1, low byte at old SP-2), sets PC to
\* 0x40 + 8*n, clears bit n of IF and leaves the other bits of IF and all of IE alone.
C2_DispatchEffect ==
    [][LET n == GetPendingIRQ(io)
       IN  (PollStep /\ regs.ime /\ n \in 0..4
                /\ InWRAMorHRAM(U16(regs.sp - 1)) /\ InWRAMorHRAM(U16(regs.sp - 2)))
           => /\ regs'.sp = regs.sp - 2
              /\ MemData(memory', regs.sp - 1) = regs.pc \div 256
              /\ MemData(memory', regs.sp - 2) = regs.pc % 256
              /\ regs'.pc = 64 + 8 * n
              /\ Bit(IORegister(io', IFReg), n) = 0
              /\ \A m \in (0..7) \ {n} : Bit(IORegister(io', IFReg), m) = Bit(IFValue, m)
              /\ io'.ie = io.ie]_vars

C2_Witness ==
    /\ Dispatched
    /\ iter.irq \in 1..4
    /\ regs.pc = 64 + 8 * iter.irq
    /\ InWRAMorHRAM(regs.sp) /\ InWRAMorHRAM(regs.sp + 1)
    /\ MemData(memory, regs.sp + 1) * 256 + MemData(memory, regs.sp) > 256

\* C3: every dispatch consumes 20 cycles: when the handler's first opcode is about to be
\* fetched, the timer, the PPU and the APU have each been advanced by 20 cycles on top
\* of the cycles of the instruction that preceded the poll.
C3_DispatchTakes20Cycles ==
    Dispatched => /\ iter.io = numClocks + 20
                  /\ iter.video = numClocks + 20
                  /\ iter.audio = numClocks + 20

\* C4: the pending-IRQ query returns the lowest bit set in IF & IE and none exactly when
\* IF & IE = 0; a poll that dispatches takes that lowest interrupt and leaves the other
\* requests pending in IF.
C4_LowestPendingFirst ==
    [][/\ (PendingMask = 0) <=> (GetPendingIRQ(io) = -1)
       /\ PendingMask # 0 => GetPendingIRQ(io) = LowestBit(PendingMask)
       /\ (PollStep /\ regs.ime /\ PendingMask # 0)
          => /\ iter'.irq = LowestBit(PendingMask)
             /\ regs'.pc = 64 + 8 * LowestBit(PendingMask)
             /\ IORegister(io', IFReg) = ClearBit(IFValue, LowestBit(PendingMask))]_vars

\* interrupt 1 was dispatched ahead of interrupt 2, which is still pending
C4_Witness == Dispatched /\ iter.irq = 1 /\ Bit(PendingMask, 2) = 1

\* C5: a poll that finds IF & IE # 0 clears HALT whatever IME is; with IME clear it does
\* not dispatch (PC, SP, IF and memory are as before the poll), so that after a HALT
\* execution goes on at the instruction that follows it.
C5_PollWakesHalt ==
    [][(PollStep /\ PendingMask # 0)
       => /\ ~regs'.halt
          /\ ~regs.ime => /\ regs'.pc = regs.pc
                          /\ regs'.sp = regs.sp
                          /\ IORegister(io', IFReg) = IFValue
                          /\ memory' = memory
                          /\ iter'.irq = -1
                          /\ (instruction = [table |-> "opcode", op |-> OP_halt] /\ iter.fetched = 1)
                             => regs'.pc = U16(iter.regs0.pc + 1)]_vars

\* the poll that ended the iteration of a HALT found a request, with IME clear
C5_Witness ==
    /\ pcLoop = "fetch"
    /\ instruction = [table |-> "opcode", op |-> OP_halt]
    /\ iter.fetched = 1
    /\ ~regs.ime
    /\ ~regs.halt
    /\ PendingMask # 0

\* C6: an iteration that starts with HALT set fetches no opcode, leaves every CPU
\* register and flag as it was up to the interrupt poll, and advances the timer, the
\* PPU and the APU by exactly 4 cycles.
C6_HaltedIteration ==
    (iter.regs0.halt /\ iter.count > 0)
    => /\ iter.fetched = 0
       /\ pcLoop \in {"exec", "io", "video", "audio", "poll"} => regs = iter.regs0
       /\ pcLoop \in {"io", "video", "audio", "poll", "fetch"} => numClocks = 4
       /\ pcLoop \in {"poll", "fetch"} => iter.io = 4 /\ iter.video = 4 /\ iter.audio = 4
       /\ (pcLoop = "fetch" /\ iter.irq = -1) => [regs EXCEPT !.halt = TRUE] = iter.regs0

C6_Witness == iter.regs0.halt /\ iter.count > 1 /\ pcLoop = "poll" /\ iter.io = 4

\* C7: the cycles c an instruction returns are delivered once to the timer, then to the
\* PPU, then to the APU; the interrupt poll comes after the three ticks and before the
\* next fetch.
C7_TickOrder ==
    [][/\ pcLoop = "io" => /\ iter.io = 0 /\ iter.video = 0 /\ iter.audio = 0
                           /\ io'.lcdCount = io.lcdCount + numClocks
                           /\ pcLoop' = "video"
       /\ pcLoop = "video" => /\ iter.io = numClocks /\ iter.video = 0 /\ iter.audio = 0
                              /\ iter'.video = numClocks
                              /\ pcLoop' = "audio"
       /\ pcLoop = "audio" => /\ iter.io = numClocks /\ iter.video = numClocks /\ iter.audio = 0
                              /\ iter'.audio = numClocks
                              /\ pcLoop' = "poll"
       /\ pcLoop = "poll" => /\ iter.io = numClocks /\ iter.video = numClocks
                             /\ iter.audio = numClocks
                             /\ pcLoop' \in {"fetch", "done"}
       /\ (regs'.halt # regs.halt /\ regs.halt) => pcLoop = "poll"
       /\ iter'.irq \notin {iter.irq, -1} => pcLoop = "poll"
       /\ iter'.fetched # iter.fetched => pcLoop = "fetch"
       /\ pcLoop = "exec" => numClocks' \in {4, 8, 12, 16, 20, 24}]_vars

C7_Witness ==
    /\ pcLoop = "poll" /\ numClocks = 12
    /\ iter.io = 12 /\ iter.video = 12 /\ iter.audio = 12 /\ io.lcdCount > 12

(***************************************************************************)
(* The LCD controller alone, with no CPU access to its registers.  A tick   *)
(* that can end the current mode has every length an instruction returns,  *)
(* so that every alignment of a tick with a mode boundary occurs; the      *)
(* ticks in between are those of 4-cycle instructions.                     *)
(***************************************************************************)
TickCycles == {4, 8, 12, 16, 20, 24}

\* the cycles the current mode lasts (the thresholds of Video::Impl::Tick)
ModeCycles(mode) ==
    CASE mode = lcd_mode_scanOAM -> 80
      [] mode = lcd_mode_readingOAMandVRAM -> 200
      [] mode = lcd_mode_hBlank -> 176
      [] mode = lcd_mode_vBlank -> 456

ScheduledCycles(v) ==
    IF v.stateCycles + 24 >= ModeCycles(v.mode) THEN TickCycles ELSE {4}

PPUTick ==
    /\ \E cycles \in ScheduledCycles(video) :
         \E t \in {VideoTick([video |-> video, io |-> io], Bus, cycles)} :
             /\ video' = RaiseRenderFlag(video, t.video)
             /\ io' = t.io
    /\ UNCHANGED <<regs, memory, cart, audio, pcLoop, instruction, numClocks, iter>>

NextPPU == PPUTick

SpecPPU == Init /\ [][NextPPU]_vars

\* what a CPU read of LY returns
LYValue == Read_u8(Bus, LY)

\* C9: after every PPU tick the LY register reads at most 153.
C9_LYAtMost153 == LYValue <= 153

\* C10: the PPU mode is one of 0..3; while LY is in 144..153 the mode is 1, and modes
\* 0, 2 and 3 occur only while LY < 144.
C10_ModeMatchesLY ==
    /\ video.mode \in {lcd_mode_hBlank, lcd_mode_vBlank, lcd_mode_scanOAM, lcd_mode_readingOAMandVRAM}
    /\ LYValue \in 144..153 => video.mode = lcd_mode_vBlank
    /\ video.mode \in {lcd_mode_hBlank, lcd_mode_scanOAM, lcd_mode_readingOAMandVRAM} => LYValue < 144

\* line 150 of a frame, in VBlank, the VBlank interrupt requested when line 144 began
C10_Witness ==
    /\ LYValue = 150
    /\ video.mode = lcd_mode_vBlank
    /\ Bit(IFValue, 0) = 1
    /\ video.stateCycles > 400

(***************************************************************************)
(* The flag register.  A program of at most MaxOps instructions, each one  *)
(* of those that write F, runs from power-up: lines 332-348 of main() for  *)
(* each, with the opcode and its operand byte drawn from the sets below.   *)
(***************************************************************************)
MaxOps == 3

FlagOpcodes ==
    {[table |-> "opcode", op |-> o] :
        o \in {OP_rlca, OP_rrca, OP_rla, OP_rra, OP_daa, OP_add_hl_hl, OP_cpl, OP_scf,
               OP_inc_a, OP_dec_a, OP_ccf, OP_push_bc, OP_add_a_imm, OP_adc_a_imm,
               OP_sub_imm, OP_sbc_a_imm, OP_and_imm, OP_add_sp_imm, OP_xor_imm,
               OP_pop_af, OP_or_imm, OP_ld_hl_sp_imm, OP_cp_imm}}
    \cup {[table |-> "opcode_cb", op |-> o] :
            o \in {CB_rlc_a, CB_rrc_a, CB_rl_a, CB_rr_a, CB_sla_a, CB_sra_a, CB_swap_a,
                   CB_srl_a, CB_bit_0_a, CB_bit_7_a}}

\* the instructions of FlagOpcodes declared with Argument::Imm8
HasImm8(ins) ==
    /\ ins.table = "opcode"
    /\ ins.op \in {OP_add_a_imm, OP_adc_a_imm, OP_sub_imm, OP_sbc_a_imm, OP_and_imm,
                   OP_add_sp_imm, OP_xor_imm, OP_or_imm, OP_ld_hl_sp_imm, OP_cp_imm}

\* operand bytes of the program
Imm8Values == {15, 240}

RunInstruction ==
    /\ iter.count < MaxOps
    /\ \E ins \in FlagOpcodes :
         \E lo \in (IF HasImm8(ins) THEN Imm8Values ELSE {0}) :
           \E n \in {IF ins.table = "opcode_cb" THEN 2 ELSE 1} :
             \E res \in {Func(ins, [regs |-> AdvancePC(regs, n), bus |-> Bus], lo, 0)} :
               /\ instruction' = ins
               /\ regs' = res.regs
               /\ SetBus(res.bus)
               /\ numClocks' = res.cycles
               /\ iter' = [iter EXCEPT !.regs0 = regs, !.fetched = n, !.count = @ + 1]
    /\ UNCHANGED pcLoop

NextFlags == RunInstruction

SpecFlags == Init /\ [][NextFlags]_vars

\* C8: the low four bits of F are zero in every state reached from power-up by
\* instructions of the base and CB tables.
C8_LowNibbleOfFZero == And8(regs.fl, 15) = 0

\* pop af has just popped a byte with low bits set, the C pushed by push bc
C8_Witness ==
    /\ instruction = [table |-> "opcode", op |-> OP_pop_af]
    /\ iter.count > 0
    /\ And8(Read_u8(Bus, U16(regs.sp - 2)), 15) # 0
    /\ Read_u8(Bus, U16(regs.sp - 2)) = InitRegs.c
    /\ regs.fl = 16

(***************************************************************************)
(* The LCD controller counted: the ticks of SpecPPU, with the cycles       *)
(* delivered, the increments of LY and the frames presented (the           *)
(* SDL_RenderPresent of the wrap) counted in iter.                         *)
(***************************************************************************)
\* number of frames' worth of cycles delivered before the exploration stops
MaxFrames == 2

LineCycles == ModeCycles(lcd_mode_scanOAM) + ModeCycles(lcd_mode_readingOAMandVRAM)
              + ModeCycles(lcd_mode_hBlank)

FrameCycles == 154 * LineCycles

\* the longest tick
MaxTick == CHOOSE c \in TickCycles : \A d \in TickCycles : d <= c

\* the tick presented the frame: the vBlank branch took its wrap
Presented(old, new) == old.mode = lcd_mode_vBlank /\ new.mode = lcd_mode_scanOAM

FrameTick ==
    /\ iter.video < MaxFrames * FrameCycles + LineCycles
    /\ \E cycles \in ScheduledCycles(video) :
         \E t \in {VideoTick([video |-> video, io |-> io], Bus, cycles)} :
             /\ video' = t.video
             /\ io' = t.io
             /\ iter' = [iter EXCEPT
                    !.video = @ + cycles,
                    !.lines = IF VideoRegister(t.video, LY) = U8(VideoRegister(video, LY) + 1)
                              THEN @ + 1 ELSE @,
                    !.frames = IF Presented(video, t.video) THEN @ + 1 ELSE @]
    /\ UNCHANGED <<regs, memory, cart, audio, pcLoop, instruction, numClocks>>

NextFrames == FrameTick

SpecFrames == Init /\ [][NextFrames]_vars

\* C11: after any sequence of ticks that delivered iter.video cycles, LY has been
\* incremented once per 456 cycles delivered (no cycle is dropped at a mode change), and
\* the frames presented number one per 70224 cycles delivered, up to the longest tick.
C11_LinesAndFrames ==
    /\ LineCycles = 456
    /\ FrameCycles = 70224
    /\ iter.lines = iter.video \div LineCycles
    /\ iter.frames <= iter.video \div FrameCycles
    /\ iter.frames >= (iter.video - MaxTick) \div FrameCycles

\* two frames were presented, after 308 increments of LY
C11_Witness == iter.frames = 2 /\ iter.lines = 308 /\ iter.video >= 2 * FrameCycles

(***************************************************************************)
(* The mode machine seen from one tick to the next.                        *)
(***************************************************************************)
\* C12: between two consecutive tick boundaries the mode stays or changes along
\* 2->3, 3->0, 0->2 with the incremented LY below 144, 0->1 with LY becoming 144,
\* or 1->2 with LY reset to 0.
C12_ModeEdges ==
    [][video'.mode # video.mode =>
        \/ /\ video.mode = lcd_mode_scanOAM /\ video'.mode = lcd_mode_readingOAMandVRAM
           /\ LYValue' = LYValue
        \/ /\ video.mode = lcd_mode_readingOAMandVRAM /\ video'.mode = lcd_mode_hBlank
           /\ LYValue' = LYValue
        \/ /\ video.mode = lcd_mode_hBlank /\ video'.mode = lcd_mode_scanOAM
           /\ LYValue' = LYValue + 1 /\ LYValue' < 144
        \/ /\ video.mode = lcd_mode_hBlank /\ video'.mode = lcd_mode_vBlank
           /\ LYValue = 143 /\ LYValue' = 144
        \/ /\ video.mode = lcd_mode_vBlank /\ video'.mode = lcd_mode_scanOAM
           /\ LYValue' = 0]_vars

\* the tick after the wrap of the first frame: mode 2 again, LY back to 0
C12_Witness ==
    /\ video.mode = lcd_mode_scanOAM
    /\ video.stateCounter = 1
    /\ LYValue = 0
    /\ Bit(IFValue, 0) = 1

(***************************************************************************)
(* The LCD controller with its interrupt requests observed.  The program   *)
(* may store STAT before the first tick, and its handler clears IF         *)
(* before the next tick, so that IF after a tick holds the requests that   *)
(* tick raised.                                                            *)
(***************************************************************************)
\* the store of the start-up code: the LYC source of STAT enabled (LYC stays 0)
LCDWrites == {<<STAT, 64>>}

\* ldh (n),a on an LCD register, before the first tick
WriteLCDRegister ==
    /\ video.stateCounter = 0
    /\ \E w \in LCDWrites : SetBus(Write_u8(Bus, w[1], w[2]))
    /\ UNCHANGED <<regs, pcLoop, instruction, numClocks, iter>>

\* ldh (0x0f),a with a = 0: the handler acknowledges the requests
AckIF ==
    /\ IFValue # 0
    /\ SetBus(Write_u8(Bus, IFReg, 0))
    /\ UNCHANGED <<regs, pcLoop, instruction, numClocks, iter>>

LCDTick ==
    /\ IFValue = 0
    /\ \E cycles \in ScheduledCycles(video) :
         \E t \in {VideoTick([video |-> video, io |-> io], Bus, cycles)} :
             /\ video' = t.video
             /\ io' = t.io
    /\ UNCHANGED <<regs, memory, cart, audio, pcLoop, instruction, numClocks, iter>>

NextLCD == WriteLCDRegister \/ AckIF \/ LCDTick

SpecLCD == Init /\ [][NextLCD]_vars

\* the step is a tick of the LCD controller
TickStep == video'.stateCycles # video.stateCycles

\* C13: with the LYC source enabled in STAT (bit 6) and the other STAT sources off, a
\* tick that changes LY (increment, or reset to 0 at the wrap) sets IF bit 1 exactly
\* when the new LY equals LYC.
C13_LYCRequestUsesNewLY ==
    [][(/\ TickStep
        /\ LYValue' # LYValue
        /\ Bit(IFValue, 1) = 0
        /\ Bit(VideoRegister(video, STAT), 6) = 1
        /\ And8(VideoRegister(video, STAT), 56) = 0)
       => (Bit(IFValue', 1) = 1 <=> LYValue' = VideoRegister(video, LYC))]_vars

\* C14: a tick sets IF bit 0 exactly when it takes LY from 143 to 144.
C14_VBlankRequestAt144 ==
    [][(TickStep /\ Bit(IFValue, 0) = 0)
       => (Bit(IFValue', 0) = 1 <=> (LYValue = 143 /\ LYValue' = 144))]_vars

\* the tick that entered line 144 has raised the VBlank request, with the LYC source on
C14_Witness ==
    /\ LYValue = 144
    /\ video.mode = lcd_mode_vBlank
    /\ video.stateCounter = 1
    /\ And8(IFValue, 1) = 1
    /\ Bit(VideoRegister(video, STAT), 6) = 1

(***************************************************************************)
(* The timer alone (IO::Tick): the program may store TAC, TIMA and TMA     *)
(* before the first tick; the ticks have every length an instruction       *)
(* returns.  iter.io counts the cycles delivered, iter.tima the times the  *)
(* TIMA branch of Tick was taken.                                          *)
(***************************************************************************)
\* cycles delivered to the timer before the exploration stops
MaxTimerCycles == 160

\* cycles delivered to DIV before the exploration stops
MaxDIVCycles == 540

\* the stores of the start-up code
TimerWrites == {<<TAC, 1>>, <<TAC, 5>>, <<TIMA, 254>>, <<TMA, 55>>}

\* ldh (n),a on a timer register, before the first tick
WriteTimerRegister ==
    /\ iter.io = 0
    /\ \E w \in TimerWrites : SetBus(Write_u8(Bus, w[1], w[2]))
    /\ UNCHANGED <<regs, pcLoop, instruction, numClocks, iter>>

\* io.Tick(cycles), while fewer than limit cycles were delivered
IOTickUpTo(limit) ==
    /\ iter.io < limit
    /\ \E cycles \in TickCycles :
         \E i \in {IOTick(io, cycles)} :
             /\ io' = i
             /\ iter' = [iter EXCEPT
                    !.io = @ + cycles,
                    !.tima = IF IORegister(io, TAC) % 2 = 1 /\ i.timaCount = 0 THEN @ + 1 ELSE @]
    /\ UNCHANGED <<regs, memory, cart, video, audio, pcLoop, instruction, numClocks>>

TimerTick == IOTickUpTo(MaxTimerCycles)

NextTimer == WriteTimerRegister \/ TimerTick

SpecTimer == Init /\ [][NextTimer]_vars

DIVTick == IOTickUpTo(MaxDIVCycles)

NextDIV == DIVTick

SpecDIV == Init /\ [][NextDIV]_vars

TACValue == IORegister(io, TAC)

TIMAValue == IORegister(io, TIMA)

\* the step is a tick of the timer
IOTickStep == iter'.io # iter.io

\* C15: a tick changes TIMA or IF only when TAC bit 2 is set, and with TAC bit 2 set the
\* timer counts: TIMA has been stepped once its threshold of cycles has been delivered.
C15_TimerEnabledByTACBit2 ==
    [][IOTickStep =>
        /\ Bit(TACValue, 2) = 0 => (TIMAValue' = TIMAValue /\ IFValue' = IFValue)
        /\ (Bit(TACValue, 2) = 1 /\ iter'.io >= timaInterval(TACValue)) => iter'.tima >= 1]_vars

\* C16: with TAC bit 2 set, after ticks totalling iter.io cycles TIMA has been stepped
\* iter.io div threshold times.
C16_TimaStepsPerThreshold ==
    Bit(TACValue, 2) = 1 => iter.tima = iter.io \div timaInterval(TACValue)

\* C17: a tick that steps TIMA from 0xff leaves TMA in TIMA and sets IF bit 2 only; a
\* tick that steps TIMA from a lower value adds 1 and leaves IF as it was.
C17_TimaOverflowReloads ==
    [][iter'.tima # iter.tima =>
        IF TIMAValue = 255
        THEN /\ TIMAValue' = IORegister(io, TMA)
             /\ IFValue' = Or8(IFValue, INT_Timer)
        ELSE /\ TIMAValue' = TIMAValue + 1
             /\ IFValue' = IFValue]_vars

\* TIMA went 254, 255, then overflowed: it holds the TMA the program stored and the
\* timer request is raised
C17_Witness ==
    /\ iter.tima = 2
    /\ IORegister(io, TMA) = 55
    /\ TIMAValue = 55
    /\ IFValue = INT_Timer

\* C18: with no write to DIV, after ticks totalling iter.io cycles the DIV byte is
\* iter.io div 256, modulo 256.
C18_DIVCountsCycles == Read_u8(Bus, DIV) = (iter.io \div 256) % 256

(***************************************************************************)
(* The cartridge alone: the program stores any byte to addresses of the    *)
(* cartridge's ROM windows (the store goes through Memory::Write_u8).      *)
(***************************************************************************)
\* the stores: every byte to both ends of the ROM-bank window, and some bytes to the
\* RAM-enable, RAM-bank and mode windows
CartWrites ==
    {<<address, value>> : address \in {8192, 16383}, value \in 0..255}
    \cup {<<address, value>> : address \in {0, 16384, 24576}, value \in {0, 10, 255}}

CartWrite ==
    /\ \E w \in CartWrites :
         /\ SetBus(Write_u8(Bus, w[1], w[2]))
         /\ iter' = [iter EXCEPT !.address = w[1], !.value = w[2]]
    /\ UNCHANGED <<regs, pcLoop, instruction, numClocks>>

NextCart == CartWrite

SpecCart == Init /\ [][NextCart]_vars

\* C19: a store of v to an address in 0x2000-0x3fff selects ROM bank v & 0x1f, or bank 1
\* when v & 0x1f is zero.
C19_BankSelect ==
    [][(iter'.address >= 8192 /\ iter'.address <= 16383)
       => cart'.currentRomBank =
            (IF And8(iter'.value, 31) # 0 THEN And8(iter'.value, 31) ELSE 1)]_vars

\* C20: after any stores to the cartridge the ROM bank is not 0, and a read in
\* 0x4000-0x7fff does not index the 16 KiB of ROM bank 0.
C20_NeverBankZero ==
    /\ cart.currentRomBank # 0
    /\ \A address \in {16384, 20000, 32767} : BankedIndex(cart, address) >= 16384

(***************************************************************************)
(* The cartridge with a 256 KiB image (16 ROM banks) loaded, started with  *)
(* or without the tracing option: the program stores to the cartridge's    *)
(* ROM windows and to its external RAM.                                    *)
(***************************************************************************)
LoadedCartridges ==
    {[InitCart EXCEPT !.size = 262144, !.enableTracing = t] : t \in BOOLEAN}

InitLoaded ==
    /\ regs = InitRegs
    /\ memory \in {[data |-> Empty, fill |-> f] : f \in FillBytes}
    /\ cart \in LoadedCartridges
    /\ io = InitIO
    /\ video = InitVideo
    /\ audio = InitAudio
    /\ pcLoop = "fetch"
    /\ instruction = [table |-> "opcode", op |-> 0]
    /\ numClocks = 0
    /\ iter = InitIter

\* the stores: every bank number to the ROM-bank window, some bytes to both ends of the
\* RAM-enable window and a byte to both ends of the external RAM
ROMWrites ==
    {<<8192, value>> : value \in 0..31}
    \cup {<<address, value>> : address \in {0, 8191}, value \in {0, 1, 10, 26, 160, 255}}
    \cup {<<address, 66>> : address \in {40960, 49151}}

ROMWrite ==
    /\ \E w \in ROMWrites :
         /\ SetBus(Write_u8(Bus, w[1], w[2]))
         /\ iter' = [iter EXCEPT !.address = w[1], !.value = w[2], !.width = 8]
    /\ UNCHANGED <<regs, pcLoop, instruction, numClocks>>

NextROM == ROMWrite

SpecROM == InitLoaded /\ [][NextROM]_vars

\* the addresses read in the fixed window, the banked window and the external RAM
Bank0Reads == {0, 255, 16383}
BankedReads == {16384, 20000, 32767}
ExternalRAMReads == {40960, 49151}

\* C21: a read of 0x4000-0x7fff returns ROM[bank * 0x4000 + (a - 0x4000)] whenever that
\* offset is inside the loaded image, and a read of 0x0000-0x3fff returns ROM[a] for
\* every selected bank.
C21_BankedRead ==
    /\ \A address \in Bank0Reads : Read_u8(Bus, address) = RomByte(address)
    /\ \A address \in BankedReads :
         \E offset \in {cart.currentRomBank * 16384 + (address - 16384)} :
            offset < cart.size => Read_u8(Bus, address) = RomByte(offset)

\* C22: a store of v to an address in 0x0000-0x1fff enables the external RAM exactly
\* when v & 0x0f is 0x0a.
C22_RamEnable ==
    [][(iter'.address >= 0 /\ iter'.address <= 8191)
       => (cart'.externalRamEnabled <=> And8(iter'.value, 15) = 10)]_vars

\* C23: while the external RAM is disabled a read of 0xa000-0xbfff returns 0xff with
\* either tracing option and a store there leaves the external RAM as it was; while it
\* is enabled a read returns the byte last stored at that address.
C23_ExternalRAMGate ==
    [][/\ ~cart.externalRamEnabled
          => \A address \in ExternalRAMReads : Read_u8(Bus, address) = 255
       /\ (iter'.address \in ExternalRAMReads /\ ~cart.externalRamEnabled)
          => cart'.externalRAM = cart.externalRAM
       /\ (iter'.address \in ExternalRAMReads /\ cart.externalRamEnabled)
          => Read_u8(Bus', iter'.address) = iter'.value]_vars

(***************************************************************************)
(* The memory bus alone: the program stores bytes and words to the work    *)
(* RAM, its mirror and the high RAM, and starts OAM DMA transfers.         *)
(***************************************************************************)
\* the number of stores of a run
MaxMemOps == 2

\* the byte stores: to the first and the last address of the mirror and to the two
\* work RAM addresses they alias
ByteWrites == {<<49152, 18>>, <<57344, 165>>, <<56831, 18>>, <<65023, 165>>}

\* the word stores: to the first and the last address of the work RAM and the high RAM
WordWrites ==
    {<<address, value>> : address \in {49152, 57343, 65408, 65534}, value \in {4660, 42495}}

\* the pages an OAM DMA transfer is started from: ROM, work RAM, its mirror, the OAM
\* itself, and the page of the I/O registers and the high RAM
DMAPages == {0, 192, 224, 254, 255}

ByteWrite ==
    /\ iter.count < MaxMemOps
    /\ \E w \in ByteWrites \cup {<<DMA, page>> : page \in DMAPages} :
         /\ SetBus(Write_u8(Bus, w[1], w[2]))
         /\ iter' = [iter EXCEPT !.address = w[1], !.value = w[2], !.width = 8,
                                 !.count = @ + 1]
    /\ UNCHANGED <<regs, pcLoop, instruction, numClocks>>

WordWrite ==
    /\ iter.count < MaxMemOps
    /\ \E w \in WordWrites :
         /\ SetBus(Write_u16(Bus, w[1], w[2]))
         /\ iter' = [iter EXCEPT !.address = w[1], !.value = w[2], !.width = 16,
                                 !.count = @ + 1]
    /\ UNCHANGED <<regs, pcLoop, instruction, numClocks>>

NextMem == ByteWrite \/ WordWrite

SpecMem == Init /\ [][NextMem]_vars

\* the addresses read in the mirror region
MirrorReads == {57344, 57345, 61440, 65023}

\* C24: after any stores, a read of an address a in 0xe000-0xfdff and a read of
\* a - 0x2000 return the same byte, and a byte stored through either address is read
\* through both.
C24_MirrorAliasesWRAM ==
    [][/\ \A a \in MirrorReads : Read_u8(Bus', a) = Read_u8(Bus', a - 8192)
       /\ \A a \in MirrorReads :
            (iter'.width = 8 /\ iter'.address \in {a, a - 8192})
            => /\ Read_u8(Bus', a) = iter'.value
               /\ Read_u8(Bus', a - 8192) = iter'.value]_vars

\* a byte stored through 0xe000 is read at 0xc000
C24_Witness ==
    /\ iter.address = 57344 /\ iter.value = 165
    /\ Read_u8(Bus, 49152) = 165
    /\ memory.fill # 165

\* the cells of memory.data outside the OAM that either state holds
CellsOutsideOAM(old, new) ==
    {a \in DOMAIN old.data \cup DOMAIN new.data : ~IsInRange(a, OAMStart, OAMEnd)}

\* C25: a store of v to 0xff46 leaves in every OAM byte 0xfe00 + i, i in 0..0x9f, the
\* byte that a bus read of (v << 8) + i returns, and changes no RAM outside the OAM.
C25_DMACopiesPage ==
    [][iter'.address = DMA
       => /\ \A i \in 0..159 :
               Read_u8(Bus', 65024 + i) = Read_u8(Bus, U16(iter'.value * 256 + i))
          /\ \A a \in CellsOutsideOAM(memory, memory') :
               MemData(memory', a) = MemData(memory, a)
          /\ cart'.externalRAM = cart.externalRAM]_vars

\* a word stored at 0xc000 was copied to the first two OAM bytes and the rest of the
\* page to the last
C25_Witness ==
    /\ iter.address = DMA /\ iter.value = 192
    /\ Read_u8(Bus, 65024) = 52 /\ Read_u8(Bus, 65025) = 18
    /\ Read_u8(Bus, 65183) = memory.fill
    /\ Read_u8(Bus, 49152) = 52

\* C26: Write_u16(a, v) at an address of the work RAM or the high RAM, the last one of
\* each included, is read back by Read_u16(a) as v, the low byte at a and the high byte
\* at a + 1.
C26_WordRoundTrip ==
    [][iter'.width = 16
       => /\ Read_u16(Bus', iter'.address) = iter'.value
          /\ Read_u8(Bus', iter'.address) = iter'.value % 256
          /\ Read_u8(Bus', U16(iter'.address + 1)) = iter'.value \div 256]_vars

\* a word stored at the last address of the high RAM, its high byte in IE
C26_Witness ==
    /\ iter.width = 16 /\ iter.address = 65534 /\ iter.value = 4660
    /\ Read_u16(Bus, 65534) = 4660
    /\ io.ie = 18

(***************************************************************************)
(* The sound unit alone: the program stores to the sound registers and the *)
(* scheduler delivers cycles, in any order.                                *)
(***************************************************************************)
\* the number of stores and ticks of a run
MaxAPUOps == 5

\* the stores: power on and off, the lengths 1 and 64 and a trigger with the length
\* enabled for the first square channel, a trigger for the second, the master volumes
APUWrites ==
    {<<NR52, 128>>, <<NR52, 0>>, <<NR11, 63>>, <<NR11, 0>>, <<NR14, 192>>, <<NR24, 128>>,
     <<NR50, 119>>}

APUWrite ==
    /\ iter.count < MaxAPUOps
    /\ \E w \in APUWrites :
         /\ SetBus(Write_u8(Bus, w[1], w[2]))
         /\ iter' = [iter EXCEPT !.address = w[1], !.value = w[2], !.width = 8,
                                 !.count = @ + 1]
    /\ UNCHANGED <<regs, pcLoop, instruction, numClocks>>

\* audio.Tick(cycles)
APUTick ==
    /\ iter.count < MaxAPUOps
    /\ \E cycles \in {4, 24} :
         /\ audio' = AudioTick(audio, cycles)
         /\ iter' = [iter EXCEPT !.audio = @ + cycles, !.address = -1, !.value = -1,
                                 !.width = 0, !.count = @ + 1]
    /\ UNCHANGED <<regs, memory, cart, io, video, pcLoop, instruction, numClocks>>

NextAPU == APUWrite \/ APUTick

SpecAPU == Init /\ [][NextAPU]_vars

\* the registers NR10 .. NR51
ChannelRegisters == NR10..NR51

\* every channel off with its counters, volumes, frequency, envelope and sweep zero,
\* the registers NR10 .. NR51 zero, no channel panned to a side, master volumes zero
AudioZeroed(a) ==
    /\ \A n \in 1..NumChannels :
         /\ ~a.channel[n].enabled
         /\ a.channel[n].lengthCounter = 0
         /\ a.channel[n].initialVolume = 0 /\ a.channel[n].currentVolume = 0
         /\ a.channel[n].frequency = 0
         /\ a.channel[n].volumeEnvelopePeriod = 0 /\ a.channel[n].volumeEnvelopeTimer = 0
         /\ ~a.channel[n].sweepEnabled
         /\ a.channel[n].sweepPeriod = 0 /\ a.channel[n].sweepShift = 0
         /\ a.channel[n].sweepTimer = 0 /\ a.channel[n].sweepFrequency = 0
    /\ \A r \in ChannelRegisters : AudioRegister(a, r) = 0
    /\ \A i \in 0..3 : ~a.outputLeft[i] /\ ~a.outputRight[i]
    /\ a.masterVolumeLeft = 0 /\ a.masterVolumeRight = 0

\* C28: after a store to NR52 with bit 7 clear the audio state is zero: the channels,
\* the stored values of NR10 .. NR51, the panning masks and the master volumes.
C28_PowerOffZeroes ==
    [][(iter'.address = NR52 /\ Bit(iter'.value, 7) = 0) => AudioZeroed(audio')]_vars

\* C29: after any stores to the sound registers and any ticks, the length counter of
\* each square channel is in 0 .. 64.
C29_SquareLengthInRange ==
    \A n \in {1, 2} : audio.channel[n].lengthCounter >= 0 /\ audio.channel[n].lengthCounter <= 64

\* the first square channel, triggered with length 1, was counted down to 0 and
\* switched off by a tick, the second holds the 64 its trigger loaded
C29_Witness ==
    /\ iter.audio > 0
    /\ AudioRegister(audio, NR11) = 63
    /\ audio.channel[1].lengthCounter = 0
    /\ audio.channel[1].lengthEnabled /\ ~audio.channel[1].enabled

(***************************************************************************)
(* The frame sequencer: the program sets the sound unit up before the      *)
(* first tick, then the scheduler delivers cycles to it.                   *)
(***************************************************************************)
\* the cycles delivered in a run: eight periods of the frame sequencer and a little
MaxSequencerCycles == 65600

\* the stores: power on, a sweep period of 7, a length of 64, a volume envelope of
\* period 7, and a trigger, all for the first square channel
SequencerWrites ==
    {<<NR52, 128>>, <<NR10, 112>>, <<NR11, 0>>, <<NR12, 247>>, <<NR14, 128>>}

\* the cycles of one tick (the longest instruction)
SequencerCycles == {24}

WriteSoundRegister ==
    /\ iter.audio = 0
    /\ \E w \in SequencerWrites :
         /\ SetBus(Write_u8(Bus, w[1], w[2]))
         /\ iter' = [iter EXCEPT !.address = w[1], !.value = w[2], !.width = 8]
    /\ UNCHANGED <<regs, pcLoop, instruction, numClocks>>

\* audio.Tick(cycles)
SequencerTick ==
    /\ iter.audio < MaxSequencerCycles
    /\ \E cycles \in SequencerCycles :
         /\ audio' = AudioTick(audio, cycles)
         /\ iter' = [iter EXCEPT !.audio = @ + cycles]
    /\ UNCHANGED <<regs, memory, cart, io, video, pcLoop, instruction, numClocks>>

NextSequencer == WriteSoundRegister \/ SequencerTick

SpecSequencer == Init /\ [][NextSequencer]_vars

\* the periods of 8192 cycles begun when n cycles were delivered: a power-on before
\* the first tick makes its first period end at once
PeriodsBegun(n) ==
    IF n = 0 THEN 0
    ELSE n \div TimerDivisor + (IF audio.audioEnabled THEN 1 ELSE 0)

\* C27: the step of the frame sequencer advances by one modulo 8 once per 8192 cycles
\* delivered, the remainder carried over; a tick clocks the length counters exactly
\* when the step it advances from is 0, 2, 4 or 6, the sweep exactly from 2 or 6, the
\* volume envelopes exactly from 7, and no tick that does not advance the step clocks
\* any of them.
C27_FrameSequencer ==
    [][iter'.audio # iter.audio
       => \E advance \in {PeriodsBegun(iter'.audio) > PeriodsBegun(iter.audio)} :
            /\ audio.step = PeriodsBegun(iter.audio) % 8
            /\ audio'.step = IF advance THEN (audio.step + 1) % 8 ELSE audio.step
            /\ \A n \in 1..NumChannels :
                 /\ audio'.channel[n].lengthCounter =
                      IF advance /\ audio.step \in {0, 2, 4, 6}
                      THEN TickLengthCounter(audio).channel[n].lengthCounter
                      ELSE audio.channel[n].lengthCounter
                 /\ audio'.channel[n].volumeEnvelopeTimer =
                      IF advance /\ audio.step = 7
                      THEN TickVolumeEnvelope(audio).channel[n].volumeEnvelopeTimer
                      ELSE audio.channel[n].volumeEnvelopeTimer
            /\ audio'.channel[1].sweepTimer =
                 IF advance /\ audio.step \in {2, 6}
                 THEN TickSweep(audio).channel[1].sweepTimer
                 ELSE audio.channel[1].sweepTimer]_vars

\* after eight periods the step is 0 again: the length counter was clocked four times
\* from 64, the sweep timer twice from 7, the envelope timer once from 7
C27_Witness ==
    /\ iter.audio >= 7 * TimerDivisor
    /\ audio.step = 0
    /\ audio.cycleCounter > 0
    /\ audio.channel[1].lengthCounter = 60
    /\ audio.channel[1].sweepTimer = 5
    /\ audio.channel[1].volumeEnvelopeTimer = 6

(***************************************************************************)
(* Decimal arithmetic: the program loads a packed-BCD byte into A, sets or *)
(* clears the carry, adds or subtracts a packed-BCD operand and adjusts    *)
(* the result with DAA.                                                    *)
(***************************************************************************)
\* the packed-BCD bytes: both nibbles in 0 .. 9
BCDBytes == {16 * hi + lo : hi \in 0..9, lo \in 0..9}

Op(o) == [table |-> "opcode", op |-> o]

\* the instructions the program may hold at each of its four positions
BCDProgram ==
    << {Op(OP_ld_a_imm)},
       {Op(OP_scf), Op(OP_ccf)},
       {Op(OP_add_a_imm), Op(OP_adc_a_imm), Op(OP_sub_imm), Op(OP_sbc_a_imm)},
       {Op(OP_daa)} >>

RunBCDInstruction ==
    /\ iter.count < Len(BCDProgram)
    /\ \E ins \in BCDProgram[iter.count + 1] :
         \E lo \in (IF ins.op = OP_daa \/ ins.op = OP_scf \/ ins.op = OP_ccf
                    THEN {0} ELSE BCDBytes) :
           \E res \in {Func(ins, [regs |-> AdvancePC(regs, 1), bus |-> Bus], lo, 0)} :
             /\ instruction' = ins
             /\ regs' = res.regs
             /\ SetBus(res.bus)
             /\ numClocks' = res.cycles
             /\ iter' = [iter EXCEPT !.regs0 = regs, !.fetched = 1, !.value = lo,
                                     !.count = @ + 1]
    /\ UNCHANGED pcLoop

NextBCD == RunBCDInstruction

SpecBCD == Init /\ [][NextBCD]_vars

\* the number a packed-BCD byte encodes, and the packed-BCD byte of a number below 100
DecimalOf(b) == (b \div 16) * 10 + (b % 16)
BCDOf(d) == (d \div 10) * 16 + (d % 10)

\* C30: for packed-BCD x and y, ADD or ADC (with either carry-in) followed by DAA
\* leaves in A the packed-BCD sum modulo 100 with C set exactly when the sum is 100 or
\* more; SUB or SBC followed by DAA leaves the packed-BCD difference modulo 100 with C
\* set exactly when a decimal borrow occurred; in both cases H = 0 and Z = (A = 0).
\* Before the DAA, iter.regs0 holds the registers before the arithmetic instruction
\* (x in A, the carry-in in F) and iter.value its operand y.
C30_DAAAfterArithmetic ==
    [][iter'.count = Len(BCDProgram)
       => \E cin \in {IF instruction.op \in {OP_adc_a_imm, OP_sbc_a_imm}
                         /\ flag_IsSet(iter.regs0, Flag_c) THEN 1 ELSE 0} :
            \E d \in {IF instruction.op \in {OP_add_a_imm, OP_adc_a_imm}
                      THEN DecimalOf(iter.regs0.a) + DecimalOf(iter.value) + cin
                      ELSE DecimalOf(iter.regs0.a) - DecimalOf(iter.value) - cin} :
              /\ regs'.a = BCDOf((d + 100) % 100)
              /\ flag_IsSet(regs', Flag_c) <=> (d >= 100 \/ d < 0)
              /\ ~flag_IsSet(regs', Flag_h)
              /\ flag_IsSet(regs', Flag_z) <=> regs'.a = 0]_vars

\* 0x45 + 0x38 = 0x7d was adjusted to 0x83 with Z, H and C clear
C30_Witness ==
    /\ iter.count = Len(BCDProgram)
    /\ instruction.op = OP_daa
    /\ iter.regs0.a = 125 /\ ~flag_IsSet(iter.regs0, Flag_n)
    /\ regs.a = 131
    /\ ~flag_IsSet(regs, Flag_z) /\ ~flag_IsSet(regs, Flag_h) /\ ~flag_IsSet(regs, Flag_c)

(***************************************************************************)
(* Binary addition: the program loads a byte into A, sets or clears the    *)
(* carry, and runs ADD A,n, ADC A,n or INC A.                              *)
(***************************************************************************)
\* the operands of ADD and ADC: every low nibble with four high nibbles
AddOperands == {16 * hi + lo : hi \in {0, 7, 8, 15}, lo \in 0..15}

\* the instructions the program may hold at each of its three positions
AddProgram ==
    << {Op(OP_ld_a_imm)},
       {Op(OP_scf), Op(OP_ccf)},
       {Op(OP_add_a_imm), Op(OP_adc_a_imm), Op(OP_inc_a)} >>

\* the operand bytes that may follow the instruction
AddOperandsOf(ins) ==
    IF ins.op = OP_ld_a_imm THEN 0..255
    ELSE IF ins.op \in {OP_add_a_imm, OP_adc_a_imm} THEN AddOperands
    ELSE {0}

RunAddInstruction ==
    /\ iter.count < Len(AddProgram)
    /\ \E ins \in AddProgram[iter.count + 1] :
         \E lo \in AddOperandsOf(ins) :
           \E res \in {Func(ins, [regs |-> AdvancePC(regs, 1), bus |-> Bus], lo, 0)} :
             /\ instruction' = ins
             /\ regs' = res.regs
             /\ SetBus(res.bus)
             /\ numClocks' = res.cycles
             /\ iter' = [iter EXCEPT !.regs0 = regs, !.fetched = 1, !.value = lo,
                                     !.count = @ + 1]
    /\ UNCHANGED pcLoop

NextAdd == RunAddInstruction

SpecAdd == Init /\ [][NextAdd]_vars

\* C31: after ADD (carry-in 0) or ADC (carry-in the old C flag) of b to A = a,
\* A = (a + b + c) mod 256, Z = (A = 0), N = 0, H = ((a & 0xf) + (b & 0xf) + c > 0xf) and
\* C = (a + b + c > 0xff); INC A follows the same Z, N and H rules with b = 1 and
\* leaves C as it was.
C31_AddFlags ==
    [][iter'.count = Len(AddProgram)
       => \E b \in {IF instruction'.op = OP_inc_a THEN 1 ELSE iter'.value} :
            \E c \in {IF instruction'.op = OP_adc_a_imm /\ flag_IsSet(regs, Flag_c)
                      THEN 1 ELSE 0} :
              /\ regs'.a = (regs.a + b + c) % 256
              /\ flag_IsSet(regs', Flag_z) <=> regs'.a = 0
              /\ ~flag_IsSet(regs', Flag_n)
              /\ flag_IsSet(regs', Flag_h) <=> (regs.a % 16) + (b % 16) + c > 15
              /\ flag_IsSet(regs', Flag_c) <=>
                   IF instruction'.op = OP_inc_a THEN flag_IsSet(regs, Flag_c)
                   ELSE regs.a + b + c > 255]_vars

\* ADC of 0x0f to A = 0xf0 with the carry set: A = 0, Z, H and C set
C31_Witness ==
    /\ iter.count = Len(AddProgram)
    /\ instruction.op = OP_adc_a_imm
    /\ iter.regs0.a = 240 /\ iter.value = 15 /\ flag_IsSet(iter.regs0, Flag_c)
    /\ regs.a = 0
    /\ flag_IsSet(regs, Flag_z) /\ flag_IsSet(regs, Flag_h) /\ flag_IsSet(regs, Flag_c)

(***************************************************************************)
(* Conditional control flow (cpu.h, detail::HandleRelativeJump,            *)
(* HandleAbsoluteJump, HandleAbsoluteCall and the opcode entries that call *)
(* them).  s.regs.pc is the address of the operand; lo and hi are the      *)
(* operand bytes the instruction reads there.                              *)
(***************************************************************************)
OP_jr_nz == 32
OP_jr_z == 40
OP_jr_nc == 48
OP_jr_c == 56
OP_ret_nz == 192
OP_jp_nz == 194
OP_call_nz == 196
OP_ret_z == 200
OP_jp_z == 202
OP_call_z == 204
OP_ret_nc == 208
OP_jp_nc == 210
OP_call_nc == 212
OP_ret_c == 216
OP_jp_c == 218
OP_call_c == 220

\* a relative jump that adds the operand as an unsigned byte
HandleRelativeJump_unsigned(s, lo, take) ==
    IF take
    THEN Done(s, [s.regs EXCEPT !.pc = U16(s.regs.pc + 1 + lo)], 12)
    ELSE Done(s, AdvancePC(s.regs, 1), 8)

HandleRelativeJump(s, lo, take) ==
    IF take
    THEN Done(s, [s.regs EXCEPT !.pc = U16(65536 + s.regs.pc + 1 + Int8(lo))], 12)
    ELSE Done(s, AdvancePC(s.regs, 1), 8)

HandleAbsoluteJump(s, lo, hi, take) ==
    IF take
    THEN Done(s, [s.regs EXCEPT !.pc = hi * 256 + lo], 16)
    ELSE Done(s, AdvancePC(s.regs, 2), 12)

HandleAbsoluteCall(s, lo, hi, take) ==
    IF take
    THEN \* the return address is the pc after the operand
         LET t == Push_u16([s EXCEPT !.regs = AdvancePC(s.regs, 2)], U16(s.regs.pc + 2))
         IN  [regs |-> [t.regs EXCEPT !.pc = hi * 256 + lo], bus |-> t.bus, cycles |-> 24]
    ELSE Done(s, AdvancePC(s.regs, 2), 12)

\* the entries of the opcode table for the conditional instructions
FuncConditional(ins, s, lo, hi) ==
    LET z == flag_IsSet(s.regs, Flag_z)
        c == flag_IsSet(s.regs, Flag_c)
    IN  CASE ins.op = OP_jr_nz -> HandleRelativeJump(s, lo, ~z)
          [] ins.op = OP_jr_z -> HandleRelativeJump(s, lo, z)
          [] ins.op = OP_jr_nc -> HandleRelativeJump(s, lo, ~c)
          [] ins.op = OP_jr_c -> HandleRelativeJump(s, lo, c)
          [] ins.op = OP_ret_nz -> HandleRelativeReturn(s, ~z)
          [] ins.op = OP_jp_nz -> HandleAbsoluteJump(s, lo, hi, ~z)
          [] ins.op = OP_call_nz -> HandleAbsoluteCall(s, lo, hi, ~z)
          [] ins.op = OP_ret_z -> HandleRelativeReturn(s, z)
          [] ins.op = OP_jp_z -> HandleAbsoluteJump(s, lo, hi, z)
          [] ins.op = OP_call_z -> HandleAbsoluteCall(s, lo, hi, z)
          [] ins.op = OP_ret_nc -> HandleRelativeReturn(s, ~c)
          [] ins.op = OP_jp_nc -> HandleAbsoluteJump(s, lo, hi, ~c)
          [] ins.op = OP_call_nc -> HandleAbsoluteCall(s, lo, hi, ~c)
          [] ins.op = OP_ret_c -> HandleRelativeReturn(s, c)
          [] ins.op = OP_jp_c -> HandleAbsoluteJump(s, lo, hi, c)
          [] ins.op = OP_call_c -> HandleAbsoluteCall(s, lo, hi, c)

RelativeJumps == {OP_jr_nz, OP_jr_z, OP_jr_nc, OP_jr_c}
Returns == {OP_ret_nz, OP_ret_z, OP_ret_nc, OP_ret_c}
AbsoluteJumps == {OP_jp_nz, OP_jp_z, OP_jp_nc, OP_jp_c}
AbsoluteCalls == {OP_call_nz, OP_call_z, OP_call_nc, OP_call_c}
ConditionalOpcodes == RelativeJumps \cup Returns \cup AbsoluteJumps \cup AbsoluteCalls

\* the number of conditional instructions a program runs after it has set the flags
MaxJumps == 2

\* the operand words hi * 256 + lo that may follow a conditional instruction
JumpOperandsOf(op) ==
    IF op \in RelativeJumps THEN {0, 5, 127, 128, 254, 255}
    ELSE IF op \in Returns THEN {0}
    ELSE {0, 255, 4660, 49152, 65534, 65535}

\* xor n and scf / ccf choose Z and C
SetFlags ==
    /\ iter.count < 2
    /\ \E ins \in (IF iter.count = 0 THEN {Op(OP_xor_imm)} ELSE {Op(OP_scf), Op(OP_ccf)}) :
         \E lo \in (IF iter.count = 0 THEN {0, 1} ELSE {0}) :
           \E res \in {Func(ins, [regs |-> AdvancePC(regs, 1), bus |-> Bus], lo, 0)} :
             /\ instruction' = ins
             /\ regs' = res.regs
             /\ SetBus(res.bus)
             /\ numClocks' = res.cycles
             /\ iter' = [iter EXCEPT !.regs0 = regs, !.fetched = 1, !.value = lo,
                                     !.count = @ + 1]
    /\ UNCHANGED pcLoop

RunConditional ==
    /\ iter.count >= 2
    /\ iter.count < 2 + MaxJumps
    /\ \E op \in ConditionalOpcodes :
         \E v \in JumpOperandsOf(op) :
           \E res \in {FuncConditional(Op(op), [regs |-> AdvancePC(regs, 1), bus |-> Bus],
                                       v % 256, v \div 256)} :
             /\ instruction' = Op(op)
             /\ regs' = res.regs
             /\ SetBus(res.bus)
             /\ numClocks' = res.cycles
             /\ iter' = [iter EXCEPT !.regs0 = regs, !.fetched = 1, !.value = v,
                                     !.count = @ + 1]
    /\ UNCHANGED pcLoop

NextJump == SetFlags \/ RunConditional

SpecJump == Init /\ [][NextJump]_vars

\* the condition an opcode tests, on the flags of r
ConditionHolds(op, r) ==
    IF op \in {OP_jr_nz, OP_ret_nz, OP_jp_nz, OP_call_nz} THEN ~flag_IsSet(r, Flag_z)
    ELSE IF op \in {OP_jr_z, OP_ret_z, OP_jp_z, OP_call_z} THEN flag_IsSet(r, Flag_z)
    ELSE IF op \in {OP_jr_nc, OP_ret_nc, OP_jp_nc, OP_call_nc} THEN ~flag_IsSet(r, Flag_c)
    ELSE flag_IsSet(r, Flag_c)

\* the number of operand bytes of an opcode
OperandBytes(op) == IF op \in RelativeJumps THEN 1 ELSE IF op \in Returns THEN 0 ELSE 2

OP_ld_hl_imm == 33
OP_ld_ind_hl_imm == 54

\* detail::PerformOnHLIndirect: w is the operation's result on the byte at HL
PerformOnHLIndirect(s, w, cycles) ==
    [regs |-> w.regs,
     bus |-> Write_u8(s.bus, FuseRegisters(s.regs.h, s.regs.l), w.value),
     cycles |-> cycles]

\* the operation of CB opcode op on the byte v: rotates and shifts, BIT, RES, SET
OperationCB(op, r, v) ==
    LET N == (op \div 8) % 8
    IN  CASE op \div 8 = 0 -> Rlc(r, v)
          [] op \div 8 = 1 -> Rrc(r, v)
          [] op \div 8 = 2 -> Rl(r, v)
          [] op \div 8 = 3 -> Rr(r, v)
          [] op \div 8 = 4 -> Sla(r, v)
          [] op \div 8 = 5 -> Sra(r, v)
          [] op \div 8 = 6 -> Swap(r, v)
          [] op \div 8 = 7 -> Srl(r, v)
          [] op \div 64 = 1 -> [value |-> v, regs |-> Bit_N(r, v, N)]
          [] op \div 64 = 2 -> [value |-> ClearBit(v, N), regs |-> r]
          [] op \div 64 = 3 -> [value |-> SetBit(v, N), regs |-> r]

\* the value the (HL) entries of the CB table return: bit 1, 3, 5 and 7 return 8
CyclesCBIndirect(op) == IF op \in {78, 94, 110, 126} THEN 8 ELSE 16

\* the value the A,(HL) entries of the base table return: adc and sbc return 4
CyclesALUIndirect(op) == IF op \in {142, 158} THEN 4 ELSE 8

\* the helper's result is assigned to regs.a
StoreA(w) == [w.regs EXCEPT !.a = w.value]

\* the operation of base opcode 0x80 + 8 * k + 6 on A and the byte v
OperationALU(op, r, v) ==
    CASE op = 134 -> StoreA(Add_r8(r, r.a, v, FALSE))
      [] op = 142 -> StoreA(Adc_r8(r, r.a, v))
      [] op = 150 -> StoreA(Sub_r8(r, r.a, v, FALSE))
      [] op = 158 -> StoreA(Sbc_r8(r, r.a, v))
      [] op = 166 -> And_A_r8(r, v)
      [] op = 174 -> Xor_A_r8(r, v)
      [] op = 182 -> Or_A_r8(r, v)
      [] op = 190 -> Cp_A_r8(r, v)

IndirectCB == {8 * k + 6 : k \in 0..31}
RegisterACB == {8 * k + 7 : k \in 0..31}
IndirectALU == {128 + 8 * k + 6 : k \in 0..7}

FuncIndirect(ins, s, lo, hi) ==
    LET r == s.regs
        v == Read_u8(s.bus, FuseRegisters(r.h, r.l))
    IN  IF ins.table = "opcode_cb"
        THEN IF ins.op \in IndirectCB
             THEN IF ins.op \div 64 = 1
                  THEN Done(s, OperationCB(ins.op, r, v).regs, CyclesCBIndirect(ins.op))
                  ELSE PerformOnHLIndirect(s, OperationCB(ins.op, r, v),
                                           CyclesCBIndirect(ins.op))
             ELSE IF ins.op \div 64 = 1
                  THEN Done(s, OperationCB(ins.op, r, r.a).regs, 8)
                  ELSE OnA(s, OperationCB(ins.op, r, r.a), 8)
        ELSE CASE ins.op = OP_ld_hl_imm -> Done(s, [AdvancePC(r, 2) EXCEPT !.l = lo, !.h = hi], 12)
               [] ins.op = OP_ld_ind_hl_imm ->
                    [regs |-> AdvancePC(r, 1),
                     bus |-> Write_u8(s.bus, FuseRegisters(r.h, r.l), lo), cycles |-> 12]
               [] ins.op \in IndirectALU -> Done(s, OperationALU(ins.op, r, v), CyclesALUIndirect(ins.op))

\* the program: ld hl,nn ; ld (hl),n ; one opcode on (HL) or on A
IndirectProgram ==
    << {Op(OP_ld_hl_imm)},
       {Op(OP_ld_ind_hl_imm)},
       {[table |-> "opcode_cb", op |-> o] : o \in IndirectCB \cup RegisterACB}
         \cup {Op(o) : o \in IndirectALU} >>

\* the operand words that may follow an instruction of the program
IndirectOperandsOf(ins) ==
    IF ins.table = "opcode_cb" THEN {0}
    ELSE IF ins.op = OP_ld_hl_imm THEN {49152, 57343, 65408}
    ELSE IF ins.op = OP_ld_ind_hl_imm THEN {0, 1, 15, 128, 165, 255}
    ELSE {0}

RunIndirectInstruction ==
    /\ iter.count < Len(IndirectProgram)
    /\ \E ins \in IndirectProgram[iter.count + 1] :
         \E v \in IndirectOperandsOf(ins) :
           \E n \in {IF ins.table = "opcode_cb" THEN 2 ELSE 1} :
             \E res \in {FuncIndirect(ins, [regs |-> AdvancePC(regs, n), bus |-> Bus],
                                      v % 256, v \div 256)} :
               /\ instruction' = ins
               /\ regs' = res.regs
               /\ SetBus(res.bus)
               /\ numClocks' = res.cycles
               /\ iter' = [iter EXCEPT !.regs0 = regs, !.fetched = n, !.value = v,
                                       !.count = @ + 1]
    /\ UNCHANGED pcLoop

NextIndirect == RunIndirectInstruction

SpecIndirect == Init /\ [][NextIndirect]_vars

\* C33: every CB-prefixed opcode on (HL), BIT n,(HL) for every n included, returns 16
\* cycles, every CB-prefixed opcode on register A returns 8, and ADD, ADC, SUB, SBC,
\* AND, XOR, OR and CP A,(HL) return 8.
C33_IndirectCycles ==
    [][iter'.count = Len(IndirectProgram)
       => numClocks' = (IF instruction'.table = "opcode_cb" /\ instruction'.op % 8 = 6
                        THEN 16 ELSE 8)]_vars

(***************************************************************************)
(* The line renderer (video.cpp: PutPixel, FillBG, FillObjects and the     *)
(* mode 3 branch of Video::Impl::Tick).  A pixel is the four bytes of the  *)
(* ARGB8888 word, alpha first; displayLine is indexed 0 .. windowWidth-1.  *)
(***************************************************************************)
windowWidth == 166

\* constexpr std::array<RGB, 4> palette
palette == << <<8, 24, 32>>, <<52, 104, 86>>, <<136, 192, 112>>, <<224, 248, 208>> >>

\* the word PutPixel stores for palette[c]
PixelOf(c) == <<255, palette[c + 1][1], palette[c + 1][2], palette[c + 1][3]>>

\* std::array<uint32_t, windowWidth> displayLine{}
BlankLine == [x \in 0..(windowWidth - 1) |-> <<0, 0, 0, 0>>]

At_u8(b, address) ==
    IF IsCartridge(address) THEN CartRead_u8(b.cart, address)
    ELSE IF IsRAM(address) THEN MemData(b.memory, RAMIndex(address))
    ELSE 255

\* the address of the tile row FillBG reads for the tile at column tileX of the map
BGImageAddr(v, b, scanLine, tileX) ==
    LET lcdc == VideoRegister(v, LCDC)
        bgTileMap == IF Bit(lcdc, 3) # 0 THEN 39936 ELSE 38912
        tileY == scanLine \div 8
        tileIndex == At_u8(b, bgTileMap + (32 * tileY) + tileX + VideoRegister(v, SCX) \div 8)
        subOffset == (tileIndex % 128) * 16 + (scanLine % 8) * 2
    IN  IF tileIndex >= 128 THEN 34816 + subOffset
        ELSE (IF Bit(lcdc, 4) # 0 THEN 32768 ELSE 36864) + subOffset

\* the colour FillBG computes from the bit (7 - offsetX) of the two bytes of the row
BGColour(i1, i2, offsetX) == 2 * Bit(i1, 7 - offsetX) + Bit(i2, 7 - offsetX)

\* the loops of FillBG put one pixel at each pixelOffset from -(scx % 8) upwards; the
\* pixel of column x of the line is pixel (x + scx % 8) % 8 of tile (x + scx % 8) / 8
FillBG(v, b, scanLine) ==
    IF Bit(VideoRegister(v, LCDC), 0) = 0 THEN v
    ELSE [v EXCEPT !.displayLine =
            [x \in 0..(windowWidth - 1) |->
               LET p == x + (VideoRegister(v, SCX) % 8)
                   imageAddr == BGImageAddr(v, b, scanLine, p \div 8)
               IN  PixelOf(BGColour(At_u8(b, imageAddr), At_u8(b, imageAddr + 1), p % 8))]]

\* the address of the sprite's tile row
SpriteImageAddr(sprite, scanLine) ==
    LET spriteY == scanLine - sprite.y
    IN  32768 + sprite.tileNumber * 16
          + (IF Bit(sprite.flags, 6) = 0 THEN spriteY * 2 ELSE (8 - spriteY) * 2)

\* the colour of column offsetX of the sprite; getSpriteBit mirrors it with flag bit 5
SpriteColour(sprite, i1, i2, offsetX) ==
    LET n == IF Bit(sprite.flags, 5) # 0 THEN offsetX ELSE 7 - offsetX
    IN  2 * Bit(i1, n) + Bit(i2, n)

FillObjects(v, b, scanLine, spriteIndex) ==
    IF spriteIndex >= v.activeSprites THEN v
    ELSE IF Bit(VideoRegister(v, LCDC), 1) = 0 THEN v
    ELSE LET sprite == v.sprites[spriteIndex + 1]
             imageAddr == SpriteImageAddr(sprite, scanLine)
             i1 == At_u8(b, U16(imageAddr))
             i2 == At_u8(b, U16(imageAddr + 1))
         IN  [v EXCEPT !.displayLine =
                [x \in 0..(windowWidth - 1) |->
                   IF x - sprite.x \in 0..7 /\ SpriteColour(sprite, i1, i2, x - sprite.x) # 0
                   THEN PixelOf(SpriteColour(sprite, i1, i2, x - sprite.x))
                   ELSE v.displayLine[x]]]

\* the head of the mode 3 branch: the background on the tick with stateCounter 1,
\* sprite stateCounter - 2 on the ticks after it
FillLine(t, b, scanLine) ==
    IF t.video.mode # lcd_mode_readingOAMandVRAM THEN t
    ELSE LET v1 == IF t.video.stateCounter = 1 THEN FillBG(t.video, b, scanLine) ELSE t.video
         IN  IF v1.stateCounter >= 2 /\ v1.stateCounter < 2 + v1.activeSprites
             THEN [t EXCEPT !.video = FillObjects(v1, b, scanLine, v1.stateCounter - 2)]
             ELSE [t EXCEPT !.video = v1]

\* the memcpy of displayLine to row scanLine of the texture, before the mode changes
CopyLine(t, scanLine) ==
    IF t.video.mode = lcd_mode_readingOAMandVRAM /\ t.video.stateCycles >= 200
    THEN [t EXCEPT !.video.framebuffer = Store(@, scanLine, t.video.displayLine)]
    ELSE t

\* Video::Impl::Tick with the pixels it writes
VideoTickRender(t0, b, cycles) ==
    LET scanLine == VideoRegister(t0.video, LY)
        stat == VideoRegister(t0.video, STAT)
    IN  CHOOSE t6 \in
            {[t5 EXCEPT !.video.stateCounter = @ + 1] : t5 \in
                {TickVBlank(t4, scanLine, stat) : t4 \in
                    {TickHBlank(t3, scanLine, stat) : t3 \in
                        {TickDrawing(CopyLine(tf, scanLine), stat) : tf \in
                            {FillLine(t2, b, scanLine) : t2 \in
                                {TickScanOAM(t1, b, scanLine) : t1 \in
                                    {[t0 EXCEPT !.video.stateCycles = @ + cycles]}}}}}}} : TRUE

\* the number of scanlines drawn
MaxRenderLines == 1

\* the video unit with its line buffer and texture
InitVideoRender ==
    [mode |-> lcd_mode_scanOAM, stateCycles |-> 0, stateCounter |-> 0,
     data |-> [n \in 0..11 |-> 0], sprites |-> <<>>, activeSprites |-> 0, needRender |-> FALSE,
     displayLine |-> BlankLine, framebuffer |-> Empty]

\* the stores of the start-up code: the tile rows of line 0 (tile 0 of either tile
\* data area, tile 255), n sprites on line 0 sixteen pixels apart, SCX and LCDC
RenderSetup(n, scx, lcdc) ==
    << <<32768, 255>>, <<32769, 15>>, <<36864, 53>>, <<36865, 83>>,
       <<36848, 53>>, <<36849, 83>> >>
    \o [k \in 1..(4 * n) |->
          <<65024 + k - 1,
            CASE (k - 1) % 4 = 0 -> 16
              [] (k - 1) % 4 = 1 -> 8 + 16 * ((k - 1) \div 4)
              [] OTHER -> 0>>]
    \o << <<SCX, scx>>, <<LCDC, lcdc>> >>

RECURSIVE WriteAll(_, _, _)
WriteAll(b, ws, k) ==
    IF k > Len(ws) THEN b
    ELSE CHOOSE done \in {WriteAll(next, ws, k + 1) :
                            next \in {Write_u8(b, ws[k][1], ws[k][2])}} : TRUE

RenderSprites == {1, 8, 10}
RenderSCX == {0, 5}
RenderLCDC == {129, 130, 131, 147}

InitRender ==
    /\ regs = InitRegs
    /\ cart = InitCart
    /\ io = InitIO
    /\ audio = InitAudio
    /\ pcLoop = "fetch"
    /\ instruction = [table |-> "opcode", op |-> 0]
    /\ numClocks = 0
    /\ iter = InitIter
    /\ \E f \in FillBytes, n \in RenderSprites, scx \in RenderSCX, lcdc \in RenderLCDC :
         \E b \in {WriteAll([memory |-> [data |-> Empty, fill |-> f], cart |-> InitCart,
                             io |-> InitIO, video |-> InitVideoRender, audio |-> InitAudio],
                            RenderSetup(n, scx, lcdc), 1)} :
            /\ memory = b.memory
            /\ video = b.video

RenderTick ==
    /\ VideoRegister(video, LY) < MaxRenderLines
    /\ \E cycles \in TickCycles :
         \E t \in {VideoTickRender([video |-> video, io |-> io], Bus, cycles)} :
             /\ video' = RaiseRenderFlag(video, t.video)
             /\ io' = t.io
    /\ UNCHANGED <<regs, memory, cart, audio, pcLoop, instruction, numClocks, iter>>

NextRender == RenderTick

SpecRender == InitRender /\ [][NextRender]_vars

\* C34: when a line leaves mode 3 with OBJ display enabled, the line copied to the
\* frame buffer holds every opaque pixel of every sprite the OAM scan kept (the
\* sprites of the lines drawn do not overlap), whatever the lengths of the ticks.
C34_SpritesComposited ==
    [][video.mode = lcd_mode_readingOAMandVRAM /\ video'.mode = lcd_mode_hBlank
       /\ Bit(VideoRegister(video, LCDC), 1) # 0
       => \A i \in 1..video.activeSprites :
            \E sprite \in {video.sprites[i]} :
              \E addr \in {SpriteImageAddr(sprite, VideoRegister(video, LY))} :
                \A k \in 0..7 :
                  \E c \in {SpriteColour(sprite, At_u8(Bus, addr), At_u8(Bus, addr + 1), k)} :
                    (c # 0 /\ sprite.x + k \in 0..(windowWidth - 1))
                      => video'.framebuffer[VideoRegister(video, LY)][sprite.x + k] = PixelOf(c)]_vars

\* C35: after the background of a line is drawn, the pixel of column x of a tile row
\* stored as b1, b2 has palette index 2 * bit (7 - x) of b2 + bit (7 - x) of b1.
C35_BGColour ==
    [][video.mode = lcd_mode_readingOAMandVRAM /\ video.stateCounter = 1
       /\ Bit(VideoRegister(video, LCDC), 0) # 0
       => \A x \in 0..(windowWidth - 1) :
            \E p \in {x + (VideoRegister(video, SCX) % 8)} :
              \E addr \in {BGImageAddr(video, Bus, VideoRegister(video, LY), p \div 8)} :
                video'.displayLine[x] =
                   PixelOf(2 * Bit(At_u8(Bus, addr + 1), 7 - (p % 8))
                           + Bit(At_u8(Bus, addr), 7 - (p % 8)))]_vars

(***************************************************************************)
(* The interrupt registers written by the program: stores to IF and IE,    *)
(* ei, and the poll at the bottom of the loop of main().                   *)
(***************************************************************************)
MaxIRQOps == 4

\* the bytes the program stores in IF and IE
IRQBytes == {0, 1, 4, 16, 31, 32, 64, 128, 224, 255}

\* ldh (n),a on IF or IE
WriteInterruptRegister ==
    /\ iter.count < MaxIRQOps
    /\ \E address \in {IFReg, IE}, value \in IRQBytes :
         /\ SetBus(Write_u8(Bus, address, value))
         /\ iter' = [iter EXCEPT !.count = @ + 1, !.irq = -1, !.address = address,
                                 !.value = value]
    /\ UNCHANGED <<regs, pcLoop, instruction, numClocks>>

\* ei
EnableInterrupts ==
    /\ iter.count < MaxIRQOps
    /\ ~regs.ime
    /\ regs' = Func(Op(OP_ei), [regs |-> regs, bus |-> Bus], 0, 0).regs
    /\ iter' = [iter EXCEPT !.count = @ + 1, !.irq = -1, !.address = -1, !.value = -1]
    /\ UNCHANGED <<memory, cart, io, video, audio, pcLoop, instruction, numClocks>>

\* lines 365-371 of main()
PollInterrupts ==
    /\ iter.count < MaxIRQOps
    /\ \E s \in {PollIRQ([regs |-> regs, bus |-> Bus])} :
         /\ regs' = s.regs
         /\ SetBus(s.bus)
         /\ iter' = [iter EXCEPT !.count = @ + 1, !.irq = s.irq, !.regs0 = regs,
                                 !.address = -1, !.value = -1]
    /\ UNCHANGED <<pcLoop, instruction, numClocks>>

NextIRQ == WriteInterruptRegister \/ EnableInterrupts \/ PollInterrupts

SpecIRQ == Init /\ [][NextIRQ]_vars

\* the five interrupt vectors
InterruptVectors == {64, 72, 80, 88, 96}

\* C36: whatever bytes are stored in IF and IE, a poll that dispatches an interrupt
\* sets PC to one of 0x40, 0x48, 0x50, 0x58, 0x60, and it dispatches only when
\* IF & IE has one of the bits 0..4 set.
C36_DispatchVectors ==
    [][iter'.irq # -1
       => /\ regs'.pc \in InterruptVectors
          /\ And8(And8(IORegister(io, IFReg), io.ie), 31) # 0]_vars

(***************************************************************************)
(* The LCD controller with a program that stores to LY.                    *)
(***************************************************************************)
\* the number of stores to LY
MaxLYOps == 1

\* the cycles the controller runs: two scanlines
LYCycles == 2 * 456

\* the bytes the program stores in LY
LYBytes == {0, 1, 90, 143, 144, 153, 200, 255}

\* ldh (0x44),a
WriteLY ==
    /\ iter.count < MaxLYOps
    /\ \E value \in LYBytes :
         /\ SetBus(Write_u8(Bus, LY, value))
         /\ iter' = [iter EXCEPT !.count = @ + 1, !.address = LY, !.value = value]
    /\ UNCHANGED <<regs, pcLoop, instruction, numClocks>>

LYTick ==
    /\ iter.video < LYCycles
    /\ \E cycles \in ScheduledCycles(video) :
         \E t \in {VideoTick([video |-> video, io |-> io], Bus, cycles)} :
             /\ video' = RaiseRenderFlag(video, t.video)
             /\ io' = t.io
             /\ iter' = [iter EXCEPT !.video = @ + cycles, !.address = -1, !.value = -1]
    /\ UNCHANGED <<regs, memory, cart, audio, pcLoop, instruction, numClocks>>

NextLY == WriteLY \/ LYTick

SpecLY == Init /\ [][NextLY]_vars

\* C37: a store of any byte to LY changes neither the value read from LY nor the
\* state of the LCD controller, so the line drawn next is the one that would have
\* been drawn without the store.
C37_LYWriteIgnored ==
    [][iter'.address = LY => (Read_u8(Bus, LY)' = Read_u8(Bus, LY) /\ video' = video)]_vars

(***************************************************************************)
(* The sound registers read back: the program stores to the sound unit and *)
(* loads from every address the I/O dispatcher forwards to it.             *)
(***************************************************************************)
\* the number of stores and loads of a run
MaxAPUReads == 2

\* the bytes that may follow registerOrMask in the build
OobMasks == {0, 85, 255}

\* power on, a sweep, a duty, a master volume, two bytes of wave RAM
APUReadWrites ==
    {<<NR52, 128>>, <<NR10, 21>>, <<NR11, 128>>, <<NR50, 119>>, <<65328, 18>>, <<65343, 171>>}

InitAPURead ==
    /\ regs = InitRegs
    /\ memory \in {[data |-> Empty, fill |-> f] : f \in FillBytes}
    /\ cart = InitCart
    /\ io = InitIO
    /\ video = InitVideo
    /\ audio \in {[InitAudio EXCEPT !.oobMask = m] : m \in OobMasks}
    /\ pcLoop = "fetch"
    /\ instruction = [table |-> "opcode", op |-> 0]
    /\ numClocks = 0
    /\ iter = InitIter

\* ldh (n),a on a sound register
APUStore ==
    /\ iter.count < MaxAPUReads
    /\ \E w \in APUReadWrites :
         /\ SetBus(Write_u8(Bus, w[1], w[2]))
         /\ iter' = [iter EXCEPT !.address = w[1], !.value = w[2], !.width = 8,
                                 !.count = @ + 1]
    /\ UNCHANGED <<regs, pcLoop, instruction, numClocks>>

\* ldh a,(n) on a sound register: width 0 marks the load, value is the byte read
APULoad ==
    /\ iter.count < MaxAPUReads
    /\ \E address \in NR10..AUD3WAVERAMEnd :
         /\ regs' = [regs EXCEPT !.a = Read_u8(Bus, address)]
         /\ iter' = [iter EXCEPT !.address = address, !.value = Read_u8(Bus, address),
                                 !.width = 0, !.count = @ + 1]
    /\ UNCHANGED <<memory, cart, io, video, audio, pcLoop, instruction, numClocks>>

NextAPURead == APUStore \/ APULoad

SpecAPURead == InitAPURead /\ [][NextAPURead]_vars

\* C38: a load from 0xff10-0xff3f reads 0xff at 0xff27-0xff2f; at every other address
\* the index address - NR10 lies inside the OR-mask table and the byte read is the
\* stored byte or'ed with the mask at that index.
C38_ReadMaskInBounds ==
    [][iter'.width = 0 /\ iter'.address >= NR10 /\ iter'.address <= AUD3WAVERAMEnd
       /\ iter'.count = iter.count + 1
       => IF iter'.address >= 65319 /\ iter'.address <= 65327
          THEN iter'.value = 255
          ELSE /\ iter'.address - NR10 < Len(registerOrMask)
               /\ iter'.value = Or8(AudioRegister(audio, iter'.address),
                                    registerOrMask[iter'.address - NR10 + 1])]_vars

(***************************************************************************)
(* The cartridge with images of several lengths that Load accepts: the     *)
(* program selects ROM banks and reads the two ROM windows.                *)
(***************************************************************************)
\* the number of bank selections and reads of a run
MaxBankOps == 3

\* the lengths of the images: one bank, two banks, four banks, sixteen banks
ImageSizes == {16384, 32768, 65536, 262144}

InitBank ==
    /\ regs = InitRegs
    /\ memory \in {[data |-> Empty, fill |-> f] : f \in FillBytes}
    /\ cart \in {[InitCart EXCEPT !.size = n, !.oob = o] : n \in ImageSizes, o \in {0, 255}}
    /\ io = InitIO
    /\ video = InitVideo
    /\ audio = InitAudio
    /\ pcLoop = "fetch"
    /\ instruction = [table |-> "opcode", op |-> 0]
    /\ numClocks = 0
    /\ iter = InitIter

\* a store to 0x2000-0x3fff
SelectBank ==
    /\ iter.count < MaxBankOps
    /\ \E address \in {8192, 16383}, value \in {0, 1, 2, 3, 4, 15, 16, 31, 255} :
         /\ SetBus(Write_u8(Bus, address, value))
         /\ iter' = [iter EXCEPT !.address = address, !.value = value, !.width = 8,
                                 !.count = @ + 1]
    /\ UNCHANGED <<regs, pcLoop, instruction, numClocks>>

\* a load from one of the ROM windows: width 0 marks the load, value is the byte read
ReadROM ==
    /\ iter.count < MaxBankOps
    /\ \E address \in {0, 327, 16383, 16384, 20000, 32767} :
         /\ regs' = [regs EXCEPT !.a = Read_u8(Bus, address)]
         /\ iter' = [iter EXCEPT !.address = address, !.value = Read_u8(Bus, address),
                                 !.width = 0, !.count = @ + 1]
    /\ UNCHANGED <<memory, cart, io, video, audio, pcLoop, instruction, numClocks>>

NextBank == SelectBank \/ ReadROM

SpecBank == InitBank /\ [][NextBank]_vars

\* C39: every read of 0x0000-0x7fff indexes cartridgeData below the length of the
\* loaded image, for every accepted length and every bank selected.
C39_ReadInsideImage ==
    [][iter'.width = 0 /\ iter'.count = iter.count + 1
       => (IF iter'.address <= 16383 THEN iter'.address
           ELSE BankedIndex(cart, iter'.address)) < cart.size]_vars

(***************************************************************************)
(* The halted processor: the program enables the VBlank interrupt in IE,   *)
(* sets or clears IME, stores LCDC and runs HALT; the loop of main() then  *)
(* spins with the NOP entry.  One action is one pass of the loop body      *)
(* (lines 326-371).                                                        *)
(***************************************************************************)
\* the passes of the loop that fit in one frame at 4 cycles each
MaxHaltIterations == 17556

\* the passes of the delay loop the program runs before HALT: up to the start of
\* line 142, and up to the last pass of line 143
DelayPasses == {142 * 114, 144 * 114 - 2}

\* lines 349-351: io.Tick, video.Tick and audio.Tick after the instruction's result res
PassTicks(res) ==
    CHOOSE x \in
      {[regs |-> res.regs, cycles |-> res.cycles,
        bus |-> [res.bus EXCEPT !.io = t.io,
                                !.video = RaiseRenderFlag(res.bus.video, t.video),
                                !.audio = AudioTick(res.bus.audio, res.cycles)]] :
         t \in {VideoTick([video |-> res.bus.video, io |-> i], res.bus, res.cycles) :
                  i \in {IOTick(res.bus.io, res.cycles)}}} : TRUE

\* lines 353-371: the finished frame is presented and the keys are read, then the poll
PassPoll(x, pressed, quit) ==
    LET render == x.bus.video.needRender
        b == IF render
             THEN [x.bus EXCEPT !.video.needRender = FALSE, !.io.buttonPressed = pressed]
             ELSE x.bus
    IN  IF render /\ quit
        THEN [regs |-> x.regs, bus |-> b, cycles |-> x.cycles, irq |-> -1, render |-> render,
              quit |-> TRUE]
        ELSE CHOOSE p \in
               {[regs |-> polled.regs, bus |-> polled.bus, cycles |-> x.cycles,
                 irq |-> polled.irq, render |-> render, quit |-> FALSE] :
                  polled \in {PollIRQ([regs |-> x.regs, bus |-> b])}} : TRUE

\* one pass of the loop body on s = [regs, bus] with the instruction ins; while halted
\* nothing is fetched
Pass(ins, s, pressed, quit) ==
    CHOOSE p \in
      {PassPoll(x, pressed, quit) :
         x \in {PassTicks(res) :
                  res \in {Func(ins, [regs |-> IF s.regs.halt THEN s.regs
                                               ELSE AdvancePC(s.regs, 1),
                                      bus |-> s.bus], 0, 0)}}} : TRUE

\* n passes of a delay loop made of NOPs, the range split in halves
RECURSIVE NopPasses(_, _)
NopPasses(s, n) ==
    IF n = 0 THEN s
    ELSE IF n = 1
    THEN CHOOSE q \in {[regs |-> p.regs, bus |-> p.bus] : p \in {Pass(NOP, s, 0, FALSE)}} : TRUE
    ELSE CHOOSE q \in {NopPasses(half, n - n \div 2) : half \in {NopPasses(s, n \div 2)}} : TRUE

\* the start-up code: ldh (0xff),a ; ldh (0x40),a ; ei or di ; the delay loop
HaltStartUp ==
    /\ iter.count = 0
    /\ \E ie \in {1}, lcdc \in {0, 145}, ins \in {Op(OP_ei), Op(OP_di)},
          delay \in DelayPasses :
         \E b \in {Write_u8(Write_u8(Bus, IE, ie), LCDC, lcdc)} :
           \E s \in {NopPasses([regs |-> Func(ins, [regs |-> AdvancePC(regs, 5), bus |-> b],
                                              0, 0).regs,
                                bus |-> b], delay)} :
              /\ SetBus(s.bus)
              /\ regs' = s.regs
              /\ iter' = [iter EXCEPT !.count = 1 + delay, !.fetched = 0]
    /\ instruction' = NOP
    /\ numClocks' = 4
    /\ UNCHANGED pcLoop

\* one pass of the loop: the halt opcode after the delay loop, the NOP entry while
\* halted; fetched counts the opcodes fetched after the delay loop
LoopPass ==
    /\ iter.count >= 1
    /\ iter.count < MaxHaltIterations
    /\ regs.halt \/ iter.fetched = 0
    /\ \E ins \in {IF regs.halt THEN NOP ELSE Op(OP_halt)} :
         \E pressed \in ButtonStates, quit \in BOOLEAN :
           \E p \in {Pass(ins, [regs |-> regs, bus |-> Bus], pressed, quit)} :
              /\ (~p.render) => (pressed = 0 /\ ~quit)
              /\ instruction' = ins
              /\ numClocks' = p.cycles
              /\ pcLoop' = (IF p.quit THEN "done" ELSE pcLoop)
              /\ regs' = p.regs
              /\ SetBus(p.bus)
              /\ iter' = [iter EXCEPT !.regs0 = regs, !.count = @ + 1, !.irq = p.irq,
                                      !.fetched = IF regs.halt THEN @ ELSE @ + 1]

NextHalt == HaltStartUp \/ LoopPass

\* the loop of main() never blocks: a pass that can run does run
SpecHalt == Init /\ [][NextHalt]_vars /\ WF_vars(LoopPass)

\* C40: once the processor is halted with bit 0 of IE set, the halt flag is
\* eventually cleared, whatever IME and LCDC are.
C40_HaltEventuallyCleared == (regs.halt /\ Bit(io.ie, 0) = 1) ~> ~regs.halt

\* the pass that raised VBlank at LY = 144 has cleared the halt flag, with IME clear
\* and the display off: the request is still in IF
C40_Witness ==
    /\ ~regs.halt /\ iter.regs0.halt
    /\ ~regs.ime
    /\ VideoRegister(video, LCDC) = 0
    /\ VideoRegister(video, LY) = 144
    /\ video.mode = lcd_mode_vBlank
    /\ Bit(IORegister(io, IFReg), 0) = 1

====
